---- MODULE Spec2Model ----
(***************************************************************************)
(* ULP Searcher Bot: the credit ledger (AdvancedCreditSystem), the local   *)
(* search engine (AdvancedSearchEngine) and the Telegram handlers          *)
(* (CompleteTelegramBot) of src/bot.py, and the API-backed variant         *)
(* (CreditSystem, TelegramBotHandlers) of src/deepseek_python_*.py.        *)
(*                                                                         *)
(* Text is a sequence of one-character strings, so that split, lower,      *)
(* strip and substring tests are computed as the code computes them.       *)
(***************************************************************************)
EXTENDS Integers, Sequences, FiniteSets, TLC

\* ------------------------------------------------------------------------
\* Program constants
\* ------------------------------------------------------------------------

MAX_FREE_CREDITS == 2

\* search_domain(): matching_domains[:10]
MaxSimilarDomains == 10

\* search_domain(): max_results default
DomainMaxResults == 10000

\* execute_search(): > 10000 results go out as a .zip
ZipThreshold == 10000

\* execute_search(): > 100 results go out as a .txt
TxtThreshold == 100

\* is_valid_dni(): len(dni) != 9
DniLength == 9

\* is_valid_dni(): int(numbers) % 23
DniModulus == 23

\* SQL NULL / Python None in an integer column
Null == -1

\* ------------------------------------------------------------------------
\* Bounds of the model
\* ------------------------------------------------------------------------

\* Telegram user ids 1..NumUsers
NumUsers == 2

\* rows the transactions table may hold
MaxTx == 5

\* rows the searches table of the API-backed bot may hold
MaxSearches == 4

\* connections that may be inside use_credits() at once
NumCallers == 2

\* largest amount an admin types into /addcredits
MaxAmount == 1

\* number of midnights that pass
MaxDays == 2

UserIds == 1 .. NumUsers

\* the accounts that send search commands
Searchers == UserIds \ {1}

\* ADMIN_IDS: the ids listed in the environment
ADMIN_IDS == {1}

\* ------------------------------------------------------------------------
\* Text
\* ------------------------------------------------------------------------

UpperChars == <<"A","B","C","D","E","F","G","H","I","J","K","L","M",
                "N","O","P","Q","R","S","T","U","V","W","X","Y","Z">>

LowerChars == <<"a","b","c","d","e","f","g","h","i","j","k","l","m",
                "n","o","p","q","r","s","t","u","v","w","x","y","z">>

DigitChars == <<"0","1","2","3","4","5","6","7","8","9">>

IndexOf(c, cs) == IF \E i \in 1 .. Len(cs) : cs[i] = c
                  THEN CHOOSE i \in 1 .. Len(cs) : cs[i] = c
                  ELSE 0

LowerChar(c) == IF IndexOf(c, UpperChars) > 0 THEN LowerChars[IndexOf(c, UpperChars)] ELSE c

UpperChar(c) == IF IndexOf(c, LowerChars) > 0 THEN UpperChars[IndexOf(c, LowerChars)] ELSE c

\* str.lower()
lower(s) == [i \in 1 .. Len(s) |-> LowerChar(s[i])]

\* str.upper()
upper(s) == [i \in 1 .. Len(s) |-> UpperChar(s[i])]

\* sub in s
Contains(sub, s) == \E i \in 0 .. (Len(s) - Len(sub)) : SubSeq(s, i + 1, i + Len(sub)) = sub

IsSpace(c) == c \in {" ", "\t", "\n", "\r"}

RECURSIVE LStrip(_)
LStrip(s) == IF s # <<>> /\ IsSpace(Head(s)) THEN LStrip(Tail(s)) ELSE s

RECURSIVE RStrip(_)
RStrip(s) == IF s # <<>> /\ IsSpace(s[Len(s)]) THEN RStrip(SubSeq(s, 1, Len(s) - 1)) ELSE s

\* str.strip()
strip(s) == RStrip(LStrip(s))

\* str.split(sep): always at least one field, empty fields kept
RECURSIVE split(_, _)
split(s, sep) ==
    IF \E i \in 1 .. Len(s) : s[i] = sep
    THEN LET i == CHOOSE k \in 1 .. Len(s) : s[k] = sep /\ \A j \in 1 .. (k - 1) : s[j] # sep
         IN  <<SubSeq(s, 1, i - 1)>> \o split(SubSeq(s, i + 1, Len(s)), sep)
    ELSE <<s>>

\* str.isdigit()
isdigit(s) == s # <<>> /\ \A i \in 1 .. Len(s) : IndexOf(s[i], DigitChars) > 0

\* int(s) for a string of digits
RECURSIVE int(_)
int(s) == IF s = <<>> THEN 0 ELSE 10 * int(SubSeq(s, 1, Len(s) - 1)) + (IndexOf(s[Len(s)], DigitChars) - 1)

\* ------------------------------------------------------------------------
\* AdvancedSearchEngine
\* ------------------------------------------------------------------------

\* The *.txt files of DATA_DIR, in glob order; a file is its sequence of lines.
\*   file 1:  t.co:a@t.co:p1
\*            x.es:00000000T:p2
\*   file 2:  t.co:a@t.co:p1
\*            https://t.co:b@t.co:p3
DataFiles ==
    << << <<"t",".","c","o",":","a","@","t",".","c","o",":","p","1">>,
          <<"x",".","e","s",":","0","0","0","0","0","0","0","0","T",":","p","2">> >>,
       << <<"t",".","c","o",":","a","@","t",".","c","o",":","p","1">>,
          <<"h","t","t","p","s",":","/","/","t",".","c","o",":","b","@","t",".","c","o",":","p","3">> >> >>

\* what a file of DATA_DIR is while open() on it raises
Unreadable == << <<"OSError">> >>

\* the loop over the files with the try around the loop: the first file that
\* cannot be opened ends it
RECURSIVE FileLocs_abort(_, _)
FileLocs_abort(files, f) ==
    IF f > Len(files) \/ files[f] = Unreadable THEN <<>>
    ELSE [n \in 1 .. Len(files[f]) |-> [file |-> f, line_num |-> n]] \o FileLocs_abort(files, f + 1)

\* for file_path in self.data_files: try: with open(file_path) ... except: log.
\* Every (file, line number) in the order the loop visits them: a file that
\* cannot be opened gives none and the next file is opened
RECURSIVE FileLocs(_, _)
FileLocs(files, f) ==
    IF f > Len(files) THEN <<>>
    ELSE IF files[f] = Unreadable THEN FileLocs(files, f + 1)
    ELSE [n \in 1 .. Len(files[f]) |-> [file |-> f, line_num |-> n]] \o FileLocs(files, f + 1)

\* dict[key].append(loc), the dict keeping its keys in insertion order
IndexAppend(idx, key, loc) ==
    IF \E i \in 1 .. Len(idx) : idx[i].key = key
    THEN [i \in 1 .. Len(idx) |->
            IF idx[i].key = key THEN [idx[i] EXCEPT !.locs = Append(@, loc)] ELSE idx[i]]
    ELSE Append(idx, [key |-> key, locs |-> <<loc>>])

\* load_all_data(): the body of the loop over lines, for one line
IndexLine(ix, files, loc) ==
    LET line  == strip(files[loc.file][loc.line_num])
        parts == split(line, ":")
        dom   == lower(parts[1])
        d1    == IF Contains(<<".">>, dom)
                 THEN IndexAppend(ix.domain_index, dom, loc)
                 ELSE ix.domain_index
        e1    == IF Len(parts) >= 2 /\ Contains(<<"@">>, parts[2])
                 THEN IndexAppend(ix.email_index, lower(parts[2]), loc)
                 ELSE ix.email_index
    IN  IF line = <<>> \/ ~Contains(<<":">>, line)
        THEN ix
        ELSE [domain_index |-> d1, email_index |-> e1]

RECURSIVE IndexLocs(_, _, _)
IndexLocs(ix, files, locs) ==
    IF locs = <<>> THEN ix
    ELSE IndexLocs(IndexLine(ix, files, Head(locs)), files, Tail(locs))

\* load_all_data(): both indexes, rebuilt from the files
load_all_data(files) ==
    IndexLocs([domain_index |-> <<>>, email_index |-> <<>>], files, FileLocs(files, 1))

\* the line a (file, line number) pair is read back as
ReadLine(files, loc) == strip(files[loc.file][loc.line_num])

\* for file_path, line_num in index[key]: try: open, read the line, append;
\* except: continue
RECURSIVE ReadLocs(_, _, _, _)
ReadLocs(files, locs, results, max_results) ==
    IF locs = <<>> \/ Len(results) >= max_results THEN results
    ELSE IF files[Head(locs).file] = Unreadable
    THEN ReadLocs(files, Tail(locs), results, max_results)
    ELSE ReadLocs(files, Tail(locs), Append(results, ReadLine(files, Head(locs))), max_results)

RECURSIVE ReadEntries(_, _, _, _)
ReadEntries(files, entries, results, max_results) ==
    IF entries = <<>> THEN results
    ELSE ReadEntries(files, Tail(entries),
                     ReadLocs(files, Head(entries).locs, results, max_results), max_results)

\* [x for x in xs if P(x)] for the index entries whose key contains q
RECURSIVE MatchingDomains(_, _)
MatchingDomains(idx, q) ==
    IF idx = <<>> THEN <<>>
    ELSE (IF Contains(q, Head(idx).key) THEN <<Head(idx)>> ELSE <<>>) \o MatchingDomains(Tail(idx), q)

\* search_domain(domain): the result list; total_found is its length
search_domain(files, ix, domain) ==
    LET matching == MatchingDomains(ix.domain_index, lower(domain))
        first    == SubSeq(matching, 1, IF Len(matching) < MaxSimilarDomains
                                        THEN Len(matching) ELSE MaxSimilarDomains)
    IN  ReadEntries(files, first, <<>>, DomainMaxResults)

\* search_email(email)
search_email(files, ix, email) ==
    LET hit == {i \in 1 .. Len(ix.email_index) : ix.email_index[i].key = lower(email)}
    IN  IF hit = {} THEN <<>>
        ELSE ReadLocs(files, ix.email_index[CHOOSE i \in hit : TRUE].locs, <<>>,
                      Len(ix.email_index[CHOOSE i \in hit : TRUE].locs))

\* search_dni(dni): the body of the loop over lines, for one line
DniLine(acc, raw, dni_lower) ==
    LET line  == strip(raw)
        parts == split(line, ":")
    IN  IF line = <<>> \/ Len(parts) < 2 THEN acc
        ELSE IF dni_lower = lower(parts[2])
             THEN [acc EXCEPT !.as_login = Append(@, line)]
        ELSE IF Len(parts) >= 3 /\ dni_lower = lower(parts[3])
             THEN [acc EXCEPT !.as_password = Append(@, line)]
        ELSE acc

RECURSIVE DniLocs(_, _, _, _)
DniLocs(acc, files, locs, dni_lower) ==
    IF locs = <<>> THEN acc
    ELSE DniLocs(DniLine(acc, files[Head(locs).file][Head(locs).line_num], dni_lower),
                 files, Tail(locs), dni_lower)

\* search_dni(dni): (as_login, as_password); total is the sum of the lengths
search_dni(files, dni) ==
    DniLocs([as_login |-> <<>>, as_password |-> <<>>], files, FileLocs(files, 1), lower(dni))

\* is_valid_dni(dni)
DniLetters == <<"T","R","W","A","G","M","Y","F","P","D","X","B","N","J","Z","S","Q","V","H","L","C","K","E">>

is_valid_dni(dni) ==
    /\ Len(dni) = DniLength
    /\ isdigit(SubSeq(dni, 1, 8))
    /\ UpperChar(dni[9]) = DniLetters[(int(SubSeq(dni, 1, 8)) % DniModulus) + 1]


\* ------------------------------------------------------------------------
\* AdvancedCreditSystem: the SQLite tables and the operations on them.
\* An operation takes the database db = [users, transactions, searches,
\* referrals] and yields the database it commits and the value it returns.
\* ------------------------------------------------------------------------

VARIABLES
    users,            \* table users: user_id -> row, for the ids that have a row
    transactions,     \* table transactions, in id order
    searches,         \* table searches, in id order
    referrals,        \* table referrals, in id order
    pending_searches, \* CompleteTelegramBot.pending_searches: user_id -> entry
    admin_actions,    \* CompleteTelegramBot.admin_actions: user_id -> entry
    conv_search,      \* users whose search conversation is in CHOOSING_FORMAT
    conv_admin,       \* users whose admin conversation is in ADMIN_ADD_CREDITS
    reply,            \* what the last handler did and answered
    calls,            \* use_credits() calls in progress: caller -> what its SELECT read
    inflight,         \* the API-backed bot: the search request awaiting its response
    today,            \* the calendar date CURRENT_TIMESTAMP falls on, in days
    engine,           \* AdvancedSearchEngine: DATA_DIR, both indexes, the last call
    now               \* datetime.now(), in hours since the bot was started

DB == [users |-> users, transactions |-> transactions,
       searches |-> searches, referrals |-> referrals]

\* INSERT INTO users (...) VALUES (..., MAX_FREE_CREDITS, referrer_id); the
\* other columns take their DEFAULTs
\* ban_reason when it is NULL
NoReason == "NULL"

NewUserRow(referrer_id) ==
    [free_credits |-> MAX_FREE_CREDITS, paid_credits |-> 0, total_searches |-> 0,
     daily_searches |-> 0, referrer_id |-> referrer_id, referral_count |-> 0,
     banned |-> FALSE, ban_reason |-> NoReason, banned_until |-> Null,
     last_daily_reset |-> today]

Tx(user_id, before, after, amount, type, admin_id) ==
    [user_id |-> user_id, credits_before |-> before, credits_after |-> after,
     amount |-> amount, type |-> type, admin_id |-> admin_id]

\* a get_or_create_user() that inserts the users row and logs nothing
CreateUser_unlogged(db, user_id, referrer_id) ==
    [db EXCEPT !.users = [u \in (DOMAIN db.users) \cup {user_id} |->
                            IF u = user_id THEN NewUserRow(referrer_id) ELSE db.users[u]]]

\* get_or_create_user(): what follows `if user: return dict(user)`, the INSERT
\* of the users row, of the free_grant transaction and, `if referrer_id:`, the
\* referral statements
CreateUser(db, user_id, referrer_id) ==
         LET created == [u \in (DOMAIN db.users) \cup {user_id} |->
                            IF u = user_id THEN NewUserRow(referrer_id) ELSE db.users[u]]
             tx1 == Append(db.transactions,
                           Tx(user_id, 0, MAX_FREE_CREDITS, MAX_FREE_CREDITS, "free_grant", Null))
         IN  IF referrer_id # Null /\ referrer_id # 0
             THEN [db EXCEPT
                     \* UPDATE users SET free_credits = free_credits + 1,
                     \*   referral_count = referral_count + 1 WHERE user_id = referrer_id
                     !.users = [u \in DOMAIN created |->
                                  IF u = referrer_id
                                  THEN [created[u] EXCEPT !.free_credits = @ + 1,
                                                          !.referral_count = @ + 1]
                                  ELSE created[u]],
                     !.transactions = Append(tx1,
                           Tx(referrer_id, MAX_FREE_CREDITS, MAX_FREE_CREDITS + 1, 1,
                              "referral_bonus", Null)),
                     !.referrals = Append(@, [referrer_id |-> referrer_id,
                                              referred_id |-> user_id,
                                              credits_awarded |-> 1])]
             ELSE [db EXCEPT !.users = created, !.transactions = tx1]

\* a get_or_create_user() that does not look the account up first
get_or_create_user_no_lookup(db, user_id, referrer_id) == CreateUser(db, user_id, referrer_id)

\* get_or_create_user(user_id, ..., referrer_id)
get_or_create_user(db, user_id, referrer_id) ==
    IF user_id \in DOMAIN db.users
    THEN db
    ELSE CreateUser(db, user_id, referrer_id)

\* get_user_credits(user_id): (free, paid, total)
get_user_credits(db, user_id) ==
    IF user_id \in DOMAIN db.users
    THEN [free  |-> db.users[user_id].free_credits,
          paid  |-> db.users[user_id].paid_credits,
          total |-> db.users[user_id].free_credits + db.users[user_id].paid_credits]
    ELSE [free |-> 0, paid |-> 0, total |-> 0]

\* a has_enough_credits() that lets a balance of 0 through
has_enough_credits_zero_passes(db, user_id) == get_user_credits(db, user_id).total >= 0

\* has_enough_credits(user_id, required = 1)
has_enough_credits(db, user_id) == get_user_credits(db, user_id).total >= 1

\* a use_credits() that draws from the paid pool first
CreditsAfterUse_paid_first(free_before, paid_before) ==
    IF paid_before > 0
    THEN [free |-> free_before, paid |-> paid_before - 1]
    ELSE [free |-> free_before - 1, paid |-> 0]

\* use_credits(): the pool the credit is taken from
CreditsAfterUse(free_before, paid_before) ==
    IF free_before > 0
    THEN [free |-> free_before - 1, paid |-> paid_before]
    ELSE [free |-> 0, paid |-> paid_before - 1]

\* a use_credits() without the INSERT INTO searches
UpdateAfterUse_no_search_row(db, user_id, free_before, paid_before, search_type, query, format_used, results_count) ==
    LET after == CreditsAfterUse(free_before, paid_before)
    IN  [db EXCEPT
           !.users[user_id] = [@ EXCEPT !.free_credits = after.free,
                                        !.paid_credits = after.paid,
                                        !.total_searches = @ + 1,
                                        !.daily_searches = @ + 1],
           !.transactions = Append(@, Tx(user_id, free_before + paid_before,
                                         after.free + after.paid, 1, "search_used", Null))]

\* a use_credits() whose UPDATE leaves total_searches alone
UpdateAfterUse_no_count(db, user_id, free_before, paid_before, search_type, query, format_used, results_count) ==
    LET after == CreditsAfterUse(free_before, paid_before)
    IN  [db EXCEPT
           !.users[user_id] = [@ EXCEPT !.free_credits = after.free,
                                        !.paid_credits = after.paid,
                                        !.daily_searches = @ + 1],
           !.transactions = Append(@, Tx(user_id, free_before + paid_before,
                                         after.free + after.paid, 1, "search_used", Null)),
           !.searches = Append(@, [user_id |-> user_id, search_type |-> search_type,
                                   query |-> query, format_used |-> format_used,
                                   results_count |-> results_count])]

\* use_credits(): what it writes and commits, given the balances its SELECT
\* returned. The balances are written as absolute values, the two counters
\* as increments
UpdateAfterUse(db, user_id, free_before, paid_before, search_type, query, format_used, results_count) ==
    LET after == CreditsAfterUse(free_before, paid_before)
    IN  [db EXCEPT
           !.users[user_id] = [@ EXCEPT !.free_credits = after.free,
                                        !.paid_credits = after.paid,
                                        !.total_searches = @ + 1,
                                        !.daily_searches = @ + 1],
           !.transactions = Append(@, Tx(user_id, free_before + paid_before,
                                         after.free + after.paid, 1, "search_used", Null)),
           !.searches = Append(@, [user_id |-> user_id, search_type |-> search_type,
                                   query |-> query, format_used |-> format_used,
                                   results_count |-> results_count])]

\* use_credits(user_id, search_type, query, format_used, results_count), run
\* without interruption
use_credits(db, user_id, search_type, query, format_used, results_count) ==
    IF user_id \notin DOMAIN db.users
    THEN [db |-> db, ret |-> FALSE]
    ELSE [db |-> UpdateAfterUse(db, user_id, db.users[user_id].free_credits,
                                db.users[user_id].paid_credits,
                                search_type, query, format_used, results_count),
          ret |-> TRUE]

\* an add_credits_to_user() that updates the balance and records nothing
add_credits_to_user_no_tx(db, user_id, amount, admin_id, credit_type) ==
    IF user_id \notin DOMAIN db.users
    THEN [db |-> db, ret |-> FALSE, message |-> "not_found"]
    ELSE [db |-> [db EXCEPT !.users[user_id].paid_credits = @ + amount],
          ret |-> TRUE, message |-> "added"]

\* add_credits_to_user(user_id, amount, admin_id, credit_type)
add_credits_to_user(db, user_id, amount, admin_id, credit_type) ==
    LET ctype        == IF credit_type \in {"free", "paid"} THEN credit_type ELSE "free"
        current_free == IF user_id \in DOMAIN db.users
                        THEN db.users[user_id].free_credits ELSE 0
    IN  IF ctype = "free" /\ current_free + amount > MAX_FREE_CREDITS
        THEN [db |-> db, ret |-> FALSE, message |-> "limit"]
        ELSE IF user_id \notin DOMAIN db.users
        THEN [db |-> db, ret |-> FALSE, message |-> "not_found"]
        ELSE LET free_before == db.users[user_id].free_credits
                 paid_before == db.users[user_id].paid_credits
                 free_after  == IF ctype = "free" THEN free_before + amount ELSE free_before
                 paid_after  == IF ctype = "free" THEN paid_before ELSE paid_before + amount
             IN  [db |-> [db EXCEPT
                            !.users[user_id] = [@ EXCEPT !.free_credits = free_after,
                                                         !.paid_credits = paid_after],
                            !.transactions = Append(@, Tx(user_id, free_before + paid_before,
                                                          free_after + paid_after, amount,
                                                          IF ctype = "free" THEN "admin_add_free"
                                                                            ELSE "admin_add_paid",
                                                          admin_id))],
                  ret |-> TRUE, message |-> "added"]

Min(a, b) == IF a <= b THEN a ELSE b

\* remove_credits_from_user(user_id, amount, admin_id); no handler calls it
remove_credits_from_user(db, user_id, amount, admin_id) ==
    IF user_id \notin DOMAIN db.users
    THEN [db |-> db, ret |-> FALSE, message |-> "not_found"]
    ELSE LET free_before  == db.users[user_id].free_credits
             paid_before  == db.users[user_id].paid_credits
             total_before == free_before + paid_before
             removed      == Min(amount, total_before)
             free_remove  == Min(free_before, removed)
             paid_remove  == removed - free_remove
             free_after   == free_before - free_remove
             paid_after   == paid_before - paid_remove
         IN  [db |-> [db EXCEPT
                        !.users[user_id] = [@ EXCEPT !.free_credits = free_after,
                                                     !.paid_credits = paid_after],
                        !.transactions = Append(@, Tx(user_id, total_before,
                                                      free_after + paid_after, removed,
                                                      "admin_remove", admin_id))],
              ret |-> TRUE, message |-> "removed"]

\* ban_user(user_id, admin_id, reason, hours): the UPDATE touches no row of
\* an unknown id, and True is returned all the same
ban_user(db, user_id, reason, hours) ==
    IF user_id \notin DOMAIN db.users THEN db
    ELSE [db EXCEPT !.users[user_id] =
            [@ EXCEPT !.banned = TRUE, !.ban_reason = reason,
                      !.banned_until = IF hours > 0 THEN now + hours ELSE Null]]

\* unban_user(user_id, admin_id)
unban_user(db, user_id) ==
    IF user_id \notin DOMAIN db.users THEN db
    ELSE [db EXCEPT !.users[user_id] =
            [@ EXCEPT !.banned = FALSE, !.ban_reason = NoReason, !.banned_until = Null]]

\* is_user_banned(): the row says banned, banned_until is set and
\* datetime.now() > banned_until
BanExpired(db, user_id) ==
    /\ user_id \in DOMAIN db.users
    /\ db.users[user_id].banned
    /\ db.users[user_id].banned_until # Null
    /\ now > db.users[user_id].banned_until

\* is_user_banned(user_id): the first value it returns
is_user_banned(db, user_id) ==
    user_id \in DOMAIN db.users /\ db.users[user_id].banned /\ ~BanExpired(db, user_id)

\* is_user_banned(user_id): the database it leaves, self.unban_user(user_id, 0)
\* once the ban has expired
is_user_banned_db(db, user_id) ==
    IF BanExpired(db, user_id) THEN unban_user(db, user_id) ELSE db


\* search_login(login): lines whose second field equals login, ignoring case
RECURSIVE FieldLocs(_, _, _, _, _)
FieldLocs(results, files, locs, field, value_lower) ==
    IF locs = <<>> THEN results
    ELSE LET line  == strip(files[Head(locs).file][Head(locs).line_num])
             parts == split(line, ":")
             hit   == line # <<>> /\ Len(parts) >= field /\ value_lower = lower(parts[field])
         IN  FieldLocs(IF hit THEN Append(results, line) ELSE results,
                       files, Tail(locs), field, value_lower)

search_login(files, login) == FieldLocs(<<>>, files, FileLocs(files, 1), 2, lower(login))

\* search_password(password): lines whose third field equals password, ignoring case
search_password(files, password) == FieldLocs(<<>>, files, FileLocs(files, 1), 3, lower(password))

\* the engine's indexes, as AdvancedSearchEngine.__init__ builds them
Index == load_all_data(DataFiles)

\* ------------------------------------------------------------------------
\* The updates the handlers are driven with
\* ------------------------------------------------------------------------

Digits(n) == <<DigitChars[n + 1]>>

\* /start, /start <id>
StartArgs == {<<>>} \cup {<<Digits(r)>> : r \in UserIds}

\* /search, /search T.co (found), /search zz (nothing found)
SearchArgs == {<<>>, <<<<"T", ".", "c", "o">>>>, <<<<"z", "z">>>>}

\* /email, /email A@t.co (found), /email c@t.co (nothing found), /email ab (invalid)
EmailArgs == {<<>>, <<<<"A", "@", "t", ".", "c", "o">>>>, <<<<"c", "@", "t", ".", "c", "o">>>>,
              <<<<"a", "b">>>>}

\* /dni, /dni 00000000t (found), /dni 00000001R (nothing found), /dni 1 (invalid)
DniArgs == {<<>>, <<<<"0", "0", "0", "0", "0", "0", "0", "0", "t">>>>,
            <<<<"0", "0", "0", "0", "0", "0", "0", "1", "R">>>>, <<<<"1">>>>}

FormatData == {"format_emailpass", "format_emailonly", "format_cancel"}

\* the buttons under the type question, and "Añadir Créditos" of the panel
AdminData == {"admin_credit_free", "admin_credit_paid", "admin_cancel", "admin_add"}

AmountTexts == {Digits(a) : a \in 0 .. MaxAmount} \cup {<<"x">>}

\* /addcredits <id> <n>, /addcredits <id> <n> <type>
DirectArgs ==
    {<<Digits(t), a>> : t \in Searchers, a \in AmountTexts}
    \cup {<<Digits(t), Digits(a), "paid">> : t \in Searchers, a \in 1 .. MaxAmount}

\* /addcredits alone opens the interactive session
AddCreditsArgs == {<<>>} \cup DirectArgs

AdminTexts == {Digits(t) : t \in UserIds} \cup AmountTexts

\* self.search_engine.search_domain(query), for the queries of the updates
SearchDomain == [q \in {lower(a[1]) : a \in SearchArgs \ {<<>>}} |->
                    search_domain(DataFiles, Index, q)]

\* self.search_engine.search_email(email), for the addresses of the updates
SearchEmail == [q \in {lower(a[1]) : a \in EmailArgs \ {<<>>}} |->
                   search_email(DataFiles, Index, q)]

\* self.search_engine.search_dni(dni), for the DNIs of the updates
SearchDni == [q \in {upper(a[1]) : a \in DniArgs \ {<<>>}} |-> search_dni(DataFiles, q)]

\* ------------------------------------------------------------------------
\* CompleteTelegramBot: one action per handler, applied to one update
\* ------------------------------------------------------------------------

\* what the last handler did: the message it sent ("none" when it died before
\* sending one), whether it searched the corpus, and what use_credits returned
\* ("not_called" when it was not called)
Reply(text, searched, consumed) ==
    [text |-> text, searched |-> searched, consumed |-> consumed]

Ret(b) == IF b THEN "True" ELSE "False"

\* del d[k]
Del(d, k) == [x \in (DOMAIN d) \ {k} |-> d[x]]

\* d[k] = v
Put(d, k, v) == [x \in (DOMAIN d) \cup {k} |-> IF x = k THEN v ELSE d[x]]

Commit(db) ==
    /\ Len(db.transactions) <= MaxTx
    /\ users' = db.users
    /\ transactions' = db.transactions
    /\ searches' = db.searches
    /\ referrals' = db.referrals

\* /start [code]
start(u, args) ==
    LET referrer_id == IF args # <<>> /\ isdigit(args[1]) THEN int(args[1]) ELSE Null
        db          == get_or_create_user(DB, u, referrer_id)
        \* banned_until is read back as a str, and banned_until.strftime raises
        text        == IF ~is_user_banned(db, u) THEN "welcome"
                       ELSE IF db.users[u].banned_until # Null THEN "none"
                       ELSE "banned"
    IN  /\ Commit(is_user_banned_db(db, u))
        /\ reply' = Reply(text, FALSE, "not_called")
        /\ UNCHANGED <<pending_searches, admin_actions, conv_search, conv_admin>>

\* the handler called is_user_banned(user_id) and wrote nothing else
BanChecked(u) ==
    /\ users' = is_user_banned_db(DB, u).users
    /\ UNCHANGED <<transactions, searches, referrals>>

\* /search <dominio>: the entry point of the search conversation (allow_reentry)
search_command(u, args) ==
    /\ BanChecked(u)
    /\ UNCHANGED <<admin_actions, conv_admin>>
    /\ IF is_user_banned(DB, u)
       THEN /\ reply' = Reply("banned", FALSE, "not_called")
            /\ UNCHANGED <<pending_searches, conv_search>>
       ELSE IF ~has_enough_credits(DB, u)
       THEN /\ reply' = Reply("no_credits", FALSE, "not_called")
            /\ conv_search' = conv_search \ {u}
            /\ UNCHANGED pending_searches
       ELSE IF args = <<>>
       THEN /\ reply' = Reply("usage", FALSE, "not_called")
            /\ conv_search' = conv_search \ {u}
            /\ UNCHANGED pending_searches
       ELSE /\ pending_searches' = Put(pending_searches, u,
                                       [type |-> "domain", query |-> lower(args[1]),
                                        step |-> "format_selection"])
            /\ reply' = Reply("choose_format", FALSE, "not_called")
            /\ conv_search' = conv_search \cup {u}

\* format_selected_handler(): format_map.get(query.data, "url:login:pass")
format_map(data) ==
    CASE data = "format_emailpass"    -> "login:pass"
      [] data = "format_urlemailpass" -> "url:login:pass"
      [] data = "format_loginpass"    -> "login:pass"
      [] data = "format_emailonly"    -> "url"
      [] OTHER                        -> "url:login:pass"

\* execute_search(): how total_found results are sent
Delivery(total_found) ==
    IF total_found > ZipThreshold THEN "results_zip"
    ELSE IF total_found > TxtThreshold THEN "results_txt"
    ELSE "results_message"

\* execute_search(): the except block, entered with the database as it is then.
\* error_send_fails: the second edit_message_text raises, and the handler dies
\* before the refund
ExceptBlock(db, user_id, found, consumed, error_send_fails) ==
    IF error_send_fails
    THEN [db |-> db, text |-> "none", found |-> found, consumed |-> consumed, raised |-> TRUE]
    ELSE [db |-> add_credits_to_user(db, user_id, 1, 0, "free").db,
          text |-> "error_refunded", found |-> found, consumed |-> consumed, raised |-> FALSE]

\* execute_search(update, user_id, search_type, query, format_choice).
\* send_fails: the Telegram call that sends the outcome raises
execute_search(db, user_id, search_type, query, format_choice, send_fails, error_send_fails) ==
    LET known   == search_type \in {"domain", "email", "login", "password"}
        results == CASE search_type = "domain"   -> SearchDomain[query]
                     [] search_type = "email"    -> search_email(DataFiles, Index, query)
                     [] search_type = "login"    -> search_login(DataFiles, query)
                     [] search_type = "password" -> search_password(DataFiles, query)
                     [] OTHER                    -> <<>>
        total_found == Len(results)
        used    == use_credits(db, user_id, search_type, query, format_choice, total_found)
    IN  IF ~known
        THEN IF send_fails
             THEN ExceptBlock(db, user_id, Null, "not_called", error_send_fails)
             ELSE [db |-> db, text |-> "invalid_type", found |-> Null,
                   consumed |-> "not_called", raised |-> FALSE]
        ELSE IF total_found = 0
        THEN IF send_fails
             THEN ExceptBlock(db, user_id, 0, "not_called", error_send_fails)
             ELSE [db |-> db, text |-> "not_found", found |-> 0,
                   consumed |-> "not_called", raised |-> FALSE]
        ELSE IF send_fails
             THEN ExceptBlock(used.db, user_id, total_found, Ret(used.ret), error_send_fails)
             ELSE [db |-> used.db, text |-> Delivery(total_found), found |-> total_found,
                   consumed |-> Ret(used.ret), raised |-> FALSE]

\* a format_* button, handled while the search conversation is in CHOOSING_FORMAT
format_selected_handler(u, data, send_fails, error_send_fails) ==
    /\ u \in conv_search
    /\ UNCHANGED <<admin_actions, conv_admin>>
    /\ IF u \notin DOMAIN pending_searches
       THEN /\ reply' = Reply("expired", FALSE, "not_called")
            /\ conv_search' = conv_search \ {u}
            /\ UNCHANGED <<users, transactions, searches, referrals, pending_searches>>
       ELSE IF data = "format_cancel"
       THEN /\ reply' = Reply("cancelled", FALSE, "not_called")
            /\ pending_searches' = Del(pending_searches, u)
            /\ conv_search' = conv_search \ {u}
            /\ UNCHANGED <<users, transactions, searches, referrals>>
       ELSE LET search_data == pending_searches[u]
                out == execute_search(DB, u, search_data.type, search_data.query,
                                      format_map(data), send_fails, error_send_fails)
            IN  /\ Commit(out.db)
                /\ reply' = Reply(out.text, TRUE, out.consumed)
                /\ IF out.raised
                   THEN UNCHANGED <<pending_searches, conv_search>>
                   ELSE /\ pending_searches' = Del(pending_searches, u)
                        /\ conv_search' = conv_search \ {u}

\* /email <correo>; /login and /pass are registered with this handler too
email_command(u, args) ==
    /\ UNCHANGED <<pending_searches, admin_actions, conv_search, conv_admin>>
    /\ IF is_user_banned(DB, u)
       THEN /\ reply' = Reply("banned", FALSE, "not_called")
            /\ BanChecked(u)
       ELSE IF ~has_enough_credits(DB, u)
       THEN /\ reply' = Reply("no_credits", FALSE, "not_called")
            /\ BanChecked(u)
       ELSE IF args = <<>>
       THEN /\ reply' = Reply("usage", FALSE, "not_called")
            /\ BanChecked(u)
       ELSE LET email   == lower(args[1])
                results == SearchEmail[email]
                used    == use_credits(is_user_banned_db(DB, u), u, "email", email, "", Len(results))
            IN  IF ~Contains(<<"@">>, email) \/ ~Contains(<<".">>, email)
                THEN /\ reply' = Reply("invalid", FALSE, "not_called")
                     /\ BanChecked(u)
                ELSE IF Len(results) = 0
                THEN /\ reply' = Reply("not_found", TRUE, "not_called")
                     /\ BanChecked(u)
                ELSE /\ Commit(used.db)
                     /\ reply' = Reply("results_message", TRUE, Ret(used.ret))

\* /dni <12345678A>
dni_command(u, args) ==
    /\ UNCHANGED <<pending_searches, admin_actions, conv_search, conv_admin>>
    /\ IF is_user_banned(DB, u)
       THEN /\ reply' = Reply("banned", FALSE, "not_called")
            /\ BanChecked(u)
       ELSE IF ~has_enough_credits(DB, u)
       THEN /\ reply' = Reply("no_credits", FALSE, "not_called")
            /\ BanChecked(u)
       ELSE IF args = <<>>
       THEN /\ reply' = Reply("usage", FALSE, "not_called")
            /\ BanChecked(u)
       ELSE LET dni_input   == upper(args[1])
                found       == SearchDni[dni_input]
                total_found == Len(found.as_login) + Len(found.as_password)
                used        == use_credits(is_user_banned_db(DB, u), u, "dni", dni_input, "dni_search", total_found)
            IN  IF ~is_valid_dni(dni_input)
                THEN /\ reply' = Reply("invalid", FALSE, "not_called")
                     /\ BanChecked(u)
                ELSE IF total_found = 0
                THEN /\ reply' = Reply("not_found", TRUE, "not_called")
                     /\ BanChecked(u)
                ELSE /\ Commit(used.db)
                     /\ reply' = Reply("results_message", TRUE, Ret(used.ret))


\* /addcredits [<user_id> <cantidad> [free/paid]]: the entry point of the admin
\* conversation, which takes it only while the conversation is not running
addcredits_command(u, args) ==
    /\ u \notin conv_admin
    /\ UNCHANGED <<pending_searches, conv_search>>
    /\ IF u \notin ADMIN_IDS
       THEN /\ reply' = Reply("admins_only", FALSE, "not_called")
            /\ UNCHANGED <<users, transactions, searches, referrals, admin_actions, conv_admin>>
       ELSE IF Len(args) < 2
       THEN /\ admin_actions' = Put(admin_actions, u,
                                    [action |-> "add_credits", step |-> "waiting_user_id",
                                     target_user |-> Null, amount |-> Null])
            /\ conv_admin' = conv_admin \cup {u}
            /\ reply' = Reply("interactive", FALSE, "not_called")
            /\ UNCHANGED <<users, transactions, searches, referrals>>
       ELSE IF ~isdigit(args[1]) \/ ~isdigit(args[2])
       THEN /\ reply' = Reply("format_error", FALSE, "not_called")
            /\ UNCHANGED <<users, transactions, searches, referrals, admin_actions, conv_admin>>
       ELSE IF int(args[2]) <= 0
       THEN /\ reply' = Reply("amount_error", FALSE, "not_called")
            /\ UNCHANGED <<users, transactions, searches, referrals, admin_actions, conv_admin>>
       ELSE LET credit_type == IF Len(args) > 2 THEN args[3] ELSE "free"
                out == add_credits_to_user(DB, int(args[1]), int(args[2]), u, credit_type)
            IN  /\ Commit(out.db)
                /\ reply' = Reply(out.message, FALSE, "not_called")
                /\ UNCHANGED <<admin_actions, conv_admin>>

\* admin_add_credits_handler(): a text message in ADMIN_ADD_CREDITS
admin_add_credits_handler(u, text) ==
    /\ UNCHANGED <<users, transactions, searches, referrals, pending_searches, conv_search>>
    /\ IF u \notin DOMAIN admin_actions
       THEN /\ reply' = Reply("expired", FALSE, "not_called")
            /\ conv_admin' = conv_admin \ {u}
            /\ UNCHANGED admin_actions
       ELSE IF admin_actions[u].step = "waiting_user_id"
       THEN /\ UNCHANGED conv_admin
            /\ IF isdigit(text)
               THEN /\ admin_actions' = [admin_actions EXCEPT
                                           ![u].target_user = int(text),
                                           ![u].step = "waiting_amount"]
                    /\ reply' = Reply("ask_amount", FALSE, "not_called")
               ELSE /\ reply' = Reply("invalid_id", FALSE, "not_called")
                    /\ UNCHANGED admin_actions
       ELSE IF admin_actions[u].step = "waiting_amount"
       THEN /\ UNCHANGED conv_admin
            /\ IF isdigit(text) /\ int(text) > 0
               THEN /\ admin_actions' = [admin_actions EXCEPT
                                           ![u].amount = int(text),
                                           ![u].step = "waiting_type"]
                    /\ reply' = Reply("ask_type", FALSE, "not_called")
               ELSE /\ reply' = Reply("invalid_amount", FALSE, "not_called")
                    /\ UNCHANGED admin_actions
       ELSE /\ reply' = Reply("ignored", FALSE, "not_called")
            /\ UNCHANGED <<admin_actions, conv_admin>>

\* admin_credit_type_handler(): an admin_* button in ADMIN_ADD_CREDITS.
\* action_data["target_user"] or ["amount"] raises KeyError while the step is
\* an earlier one: the handler dies and nothing changes
admin_credit_type_handler(u, data) ==
    /\ u \in conv_admin
    /\ UNCHANGED <<pending_searches, conv_search>>
    /\ IF u \notin DOMAIN admin_actions
       THEN /\ reply' = Reply("expired", FALSE, "not_called")
            /\ conv_admin' = conv_admin \ {u}
            /\ UNCHANGED <<users, transactions, searches, referrals, admin_actions>>
       ELSE IF data = "admin_cancel"
       THEN /\ reply' = Reply("cancelled", FALSE, "not_called")
            /\ admin_actions' = Del(admin_actions, u)
            /\ conv_admin' = conv_admin \ {u}
            /\ UNCHANGED <<users, transactions, searches, referrals>>
       ELSE IF admin_actions[u].target_user = Null \/ admin_actions[u].amount = Null
       THEN /\ reply' = Reply("none", FALSE, "not_called")
            /\ UNCHANGED <<users, transactions, searches, referrals, admin_actions, conv_admin>>
       ELSE LET credit_type == IF data = "admin_credit_free" THEN "free" ELSE "paid"
                out == add_credits_to_user(DB, admin_actions[u].target_user,
                                           admin_actions[u].amount, u, credit_type)
            IN  /\ Commit(out.db)
                /\ reply' = Reply(out.message, FALSE, "not_called")
                /\ admin_actions' = Del(admin_actions, u)
                /\ conv_admin' = conv_admin \ {u}

\* a text message that is not a command. While the search conversation is
\* running its fallback takes the message; the fallback's callback is a plain
\* lambda, so awaiting what it returns raises and the conversation stays where
\* it is. Otherwise the admin conversation's text handler takes it when that
\* conversation is running
text_message(u, text) ==
    IF u \in conv_search
    THEN /\ reply' = Reply("none", FALSE, "not_called")
         /\ UNCHANGED <<users, transactions, searches, referrals, pending_searches,
                        admin_actions, conv_search, conv_admin>>
    ELSE /\ u \in conv_admin
         /\ admin_add_credits_handler(u, text)

\* /cancel: the command handler registered before both conversations takes it
cancel_command(u) ==
    /\ pending_searches' = Del(pending_searches, u)
    /\ admin_actions' = Del(admin_actions, u)
    /\ reply' = Reply("cancelled", FALSE, "not_called")
    /\ UNCHANGED <<users, transactions, searches, referrals, conv_search, conv_admin>>

\* /mycredits: a balance read
mycredits_command(u) ==
    /\ reply' = Reply(IF u \in DOMAIN users THEN "credits" ELSE "not_registered",
                      FALSE, "not_called")
    /\ UNCHANGED <<users, transactions, searches, referrals, pending_searches,
                   admin_actions, conv_search, conv_admin>>

\* reset_daily_limits(): UPDATE users SET daily_searches = 0,
\* last_daily_reset = CURRENT_TIMESTAMP. main() wraps it in a job, but the
\* run_daily() call that would schedule the job is commented out, so no
\* behaviour of the bot contains this step
reset_daily_limits(db) ==
    [db EXCEPT !.users = [u \in DOMAIN db.users |->
                            [db.users[u] EXCEPT !.daily_searches = 0,
                                                !.last_daily_reset = today]]]

\* ------------------------------------------------------------------------
\* AdvancedSearchEngine over a DATA_DIR that changes: documents are uploaded,
\* files are removed, the indexes are reloaded, files stop being readable
\* ------------------------------------------------------------------------

\* files of DATA_DIR that cannot be opened at the same time
MaxUnreadable == 1

\* send_results_as_message(): the lines shown and the length a line is cut at
MessageLines == 10

MessageLineMax == 100

MessageLineCut == 97

\* send_results_as_zip(): results[:50000]
ZipLines == 50000

\* handle_document(): 100 MB
MaxDocumentMB == 100

\* str.endswith(suffix)
endswith(s, suffix) ==
    Len(s) >= Len(suffix) /\ SubSeq(s, Len(s) - Len(suffix) + 1, Len(s)) = suffix

\* xs[:n]
Take(xs, n) == SubSeq(xs, 1, Min(Len(xs), n))

\* the names of the files of DataFiles
DataFileNames == <<<<"u", "l", "p", "1", ".", "t", "x", "t">>, <<"u", "l", "p", "2", ".", "t", "x", "t">>>>

\* DATA_DIR at construction: name, lines and whether open() succeeds, per file
Disk ==
    [f \in 1 .. Len(DataFiles) |->
        [name |-> DataFileNames[f], lines |-> DataFiles[f], readable |-> TRUE]]

\* what open() and the read give for each file of DATA_DIR
Files(disk) ==
    [f \in 1 .. Len(disk) |-> IF disk[f].readable THEN disk[f].lines ELSE Unreadable]

\* the documents the administrator sends, size in MB:
\*   new.txt   https://t.co:c@t.co:p4
\*             n.co:c@n.co:p5
\*   wide.txt  0.w:u:p  1.w:u:p  ...  9.w:u:p  a.w:u:p   (eleven lines)
\*   list.csv  t.co:d@t.co:p6
\*   void.txt  zz
\*   huge.txt  101 MB
WideChars == <<"0", "1", "2", "3", "4", "5", "6", "7", "8", "9", "a">>

Documents ==
    { [file_name |-> <<"n", "e", "w", ".", "t", "x", "t">>, file_size |-> 1,
       lines |-> <<<<"h", "t", "t", "p", "s", ":", "/", "/", "t", ".", "c", "o", ":", "c", "@", "t", ".", "c", "o", ":", "p", "4">>,
                   <<"n", ".", "c", "o", ":", "c", "@", "n", ".", "c", "o", ":", "p", "5">>>>],
      [file_name |-> <<"w", "i", "d", "e", ".", "t", "x", "t">>, file_size |-> 1,
       lines |-> [i \in 1 .. Len(WideChars) |-> <<WideChars[i], ".", "w", ":", "u", ":", "p">>]],
      [file_name |-> <<"l", "i", "s", "t", ".", "c", "s", "v">>, file_size |-> 1,
       lines |-> <<<<"t", ".", "c", "o", ":", "d", "@", "t", ".", "c", "o", ":", "p", "6">>>>],
      [file_name |-> <<"v", "o", "i", "d", ".", "t", "x", "t">>, file_size |-> 1,
       lines |-> <<<<"z", "z">>>>],
      [file_name |-> <<"h", "u", "g", "e", ".", "t", "x", "t">>, file_size |-> MaxDocumentMB + 1,
       lines |-> <<<<"t", ".", "c", "o", ":", "d", "@", "t", ".", "c", "o", ":", "p", "6">>>>] }

\* the state of the engine after __init__(), and no call made yet
EngineInit == [disk |-> Disk, index |-> Index, out |-> [op |-> "none"]]

\* shutil.copy2(file_path, dest_path): a new file of DATA_DIR, or new content
\* for the file of that name
copy2(disk, file_name, lines) ==
    IF \E f \in 1 .. Len(disk) : disk[f].name = file_name
    THEN [f \in 1 .. Len(disk) |->
            IF disk[f].name = file_name
            THEN [name |-> file_name, lines |-> lines, readable |-> TRUE]
            ELSE disk[f]]
    ELSE Append(disk, [name |-> file_name, lines |-> lines, readable |-> TRUE])

\* add_data_file(file_path): (success, DATA_DIR, the indexes).
\* copy_fails: shutil.copy2 raises
add_data_file(eng, file_name, lines, copy_fails) ==
    IF copy_fails
    THEN [success |-> FALSE, disk |-> eng.disk, index |-> eng.index]
    ELSE LET disk == copy2(eng.disk, file_name, lines)
         IN  [success |-> TRUE, disk |-> disk, index |-> load_all_data(Files(disk))]

\* handle_document(): a document sent by the administrator.
\* The os.rename that follows add_data_file moves the download onto the copy.
handle_document(document, copy_fails) ==
    LET valid_lines == {i \in 1 .. Len(document.lines) :
                            /\ strip(document.lines[i]) # <<>>
                            /\ \/ Contains(<<":">>, strip(document.lines[i]))
                               \/ Contains(<<"@">>, strip(document.lines[i]))}
        added == add_data_file(engine, document.file_name, document.lines, copy_fails)
        answer(text) == [op |-> "document", file_name |-> document.file_name, text |-> text]
    IN  IF ~endswith(document.file_name, <<".", "t", "x", "t">>)
        THEN engine' = [engine EXCEPT !.out = answer("not_txt")]
        ELSE IF document.file_size > MaxDocumentMB
        THEN engine' = [engine EXCEPT !.out = answer("too_large")]
        ELSE IF valid_lines = {}
        THEN engine' = [engine EXCEPT !.out = answer("invalid")]
        ELSE engine' = [disk |-> added.disk, index |-> added.index,
                        out |-> answer(IF added.success THEN "processed" ELSE "error")]

\* remove_data_file(filename).  remove_fails: os.remove raises
remove_data_file(filename, remove_fails) ==
    LET exists == \E f \in 1 .. Len(engine.disk) : engine.disk[f].name = filename
        disk   == SelectSeq(engine.disk, LAMBDA file : file.name # filename)
        ret(b) == [op |-> "remove", file_name |-> filename, ret |-> b]
    IN  IF exists /\ ~remove_fails
        THEN engine' = [disk |-> disk, index |-> load_all_data(Files(disk)), out |-> ret(TRUE)]
        ELSE engine' = [engine EXCEPT !.out = ret(FALSE)]

\* the button admin_reload: self.search_engine.load_all_data()
admin_reload ==
    engine' = [engine EXCEPT !.index = load_all_data(Files(engine.disk)),
                             !.out = [op |-> "reload"]]

\* a file of DATA_DIR stops being readable, or is readable again
ReadError(f) ==
    LET disk == [engine.disk EXCEPT ![f].readable = ~@]
    IN  /\ f \in 1 .. Len(engine.disk)
        /\ Cardinality({g \in 1 .. Len(disk) : ~disk[g].readable}) <= MaxUnreadable
        /\ engine' = [engine EXCEPT !.disk = disk]

\* send_results_as_message(): a line of the message
MessageLine(line) ==
    IF Len(line) > MessageLineMax
    THEN SubSeq(line, 1, MessageLineCut) \o <<".", ".", ".">>
    ELSE line

\* execute_search(): the lines of the message or of the file that is sent
\* (send_results_as_zip, send_results_as_txt, send_results_as_message);
\* format_choice is written in the header only
send_results(results, format_choice) ==
    IF Len(results) > ZipThreshold THEN Take(results, ZipLines)
    ELSE IF Len(results) > TxtThreshold THEN results
    ELSE [i \in 1 .. Min(Len(results), MessageLines) |-> MessageLine(results[i])]

\* a format_* button after /search <query>: execute_search(..., "domain", query,
\* format_choice) on the engine as it is
domain_search(query, data) ==
    LET results == search_domain(Files(engine.disk), engine.index, lower(query))
    IN  engine' = [engine EXCEPT !.out =
                      [op |-> "domain", query |-> lower(query), format |-> format_map(data),
                       results |-> results, total_found |-> Len(results),
                       sent |-> send_results(results, format_map(data))]]

\* self.search_engine.search_email(email)
email_search(email) ==
    LET results == search_email(Files(engine.disk), engine.index, lower(email))
    IN  engine' = [engine EXCEPT !.out =
                      [op |-> "email", query |-> lower(email), results |-> results,
                       total_found |-> Len(results)]]

\* self.search_engine.search_login(login)
login_search(login) ==
    LET results == search_login(Files(engine.disk), login)
    IN  engine' = [engine EXCEPT !.out =
                      [op |-> "login", query |-> login, results |-> results,
                       total_found |-> Len(results)]]

\* self.search_engine.search_password(password)
password_search(password) ==
    LET results == search_password(Files(engine.disk), password)
    IN  engine' = [engine EXCEPT !.out =
                      [op |-> "password", query |-> password, results |-> results,
                       total_found |-> Len(results)]]

\* self.search_engine.search_dni(dni)
dni_search(dni) ==
    LET found == search_dni(Files(engine.disk), dni)
    IN  engine' = [engine EXCEPT !.out =
                      [op |-> "dni", query |-> dni,
                       results |-> found.as_login \o found.as_password,
                       total_found |-> Len(found.as_login) + Len(found.as_password)]]

\* the numbers of lines a query finds under ten index keys or fewer
MatchCounts == {1, TxtThreshold - 1, TxtThreshold, TxtThreshold + 1,
                ZipThreshold, ZipThreshold + 1}

\* search_domain() and execute_search() on a corpus where matching lines
\* match: total_found and the way the results are sent
sized_search(matching) ==
    LET total_found == Min(matching, DomainMaxResults)
    IN  engine' = [engine EXCEPT !.out =
                      [op |-> "sized", matching |-> matching, total_found |-> total_found,
                       text |-> Delivery(total_found)]]

\* /search T.co, /search .W
DomainQueries == {<<"T", ".", "c", "o">>, <<".", "W">>}

FormatButtons == {"format_emailpass", "format_urlemailpass", "format_emailonly"}

EmailQueries == {<<"A", "@", "t", ".", "c", "o">>}

LoginQueries == {<<"A", "@", "T", ".", "c", "o">>}

PasswordQueries == {<<"P", "1">>}

DniQueries == {<<"0", "0", "0", "0", "0", "0", "0", "0", "t">>}

EngineFrame ==
    UNCHANGED <<users, transactions, searches, referrals, pending_searches, admin_actions,
                conv_search, conv_admin, reply, calls, inflight, today, now>>

\* ------------------------------------------------------------------------
\* The bot as a state machine
\* ------------------------------------------------------------------------

vars == <<users, transactions, searches, referrals, pending_searches, admin_actions,
          conv_search, conv_admin, reply, calls, inflight, today, engine, now>>

Callers == 1 .. NumCallers

\* a connection that is not inside use_credits()
Idle == [pc |-> "idle", user_id |-> Null, free_before |-> Null, paid_before |-> Null]

Empty == [x \in {} |-> Null]

Init ==
    /\ users = Empty
    /\ transactions = <<>>
    /\ searches = <<>>
    /\ referrals = <<>>
    /\ pending_searches = Empty
    /\ admin_actions = Empty
    /\ conv_search = {}
    /\ conv_admin = {}
    /\ reply = Reply("none", FALSE, "not_called")
    /\ calls = [c \in Callers |-> Idle]
    /\ inflight = Empty
    /\ today = 0
    /\ engine = EngineInit
    /\ now = 0

\* the bot of bot.py, one update handled at a time, with the administrator
\* granting credits by /addcredits <id> <n> [type]
Next ==
    \/ \E u \in UserIds, args \in StartArgs :
          start(u, args) /\ UNCHANGED <<calls, inflight, today, engine, now>>
    \/ \E u \in Searchers, args \in SearchArgs :
          search_command(u, args) /\ UNCHANGED <<calls, inflight, today, engine, now>>
    \/ \E u \in Searchers, data \in FormatData, f1 \in BOOLEAN, f2 \in BOOLEAN :
          format_selected_handler(u, data, f1, f2) /\ UNCHANGED <<calls, inflight, today, engine, now>>
    \/ \E u \in Searchers, args \in EmailArgs :
          email_command(u, args) /\ UNCHANGED <<calls, inflight, today, engine, now>>
    \/ \E u \in Searchers, args \in DniArgs :
          dni_command(u, args) /\ UNCHANGED <<calls, inflight, today, engine, now>>
    \/ \E u \in UserIds, args \in DirectArgs :
          addcredits_command(u, args) /\ UNCHANGED <<calls, inflight, today, engine, now>>
    \/ \E u \in Searchers :
          text_message(u, <<"x">>) /\ UNCHANGED <<calls, inflight, today, engine, now>>
    \/ \E u \in Searchers :
          cancel_command(u) /\ UNCHANGED <<calls, inflight, today, engine, now>>

Spec == Init /\ [][Next]_vars

\* ------------------------------------------------------------------------
\* use_credits() entered by several connections to the same database file
\* ------------------------------------------------------------------------

\* use_credits(): the SELECT of free_credits and paid_credits, which runs
\* outside any transaction; `return False` when there is no row
use_credits_select(c, u) ==
    /\ calls[c].pc = "idle"
    /\ IF u \notin DOMAIN users
       THEN /\ reply' = Reply("none", FALSE, "False")
            /\ UNCHANGED calls
       ELSE /\ calls' = [calls EXCEPT ![c] = [pc |-> "selected", user_id |-> u,
                                              free_before |-> users[u].free_credits,
                                              paid_before |-> users[u].paid_credits]]
            /\ UNCHANGED reply
    /\ UNCHANGED <<users, transactions, searches, referrals, pending_searches,
                   admin_actions, conv_search, conv_admin, inflight, today, engine, now>>

\* use_credits(): the UPDATE, the two INSERTs and the commit, which SQLite
\* runs as one write transaction; `return True`
use_credits_commit(c, email) ==
    /\ calls[c].pc = "selected"
    /\ Commit(UpdateAfterUse(DB, calls[c].user_id, calls[c].free_before, calls[c].paid_before,
                             "email", email, "", Len(SearchEmail[email])))
    /\ calls' = [calls EXCEPT ![c] = Idle]
    /\ reply' = Reply("none", FALSE, "True")
    /\ UNCHANGED <<pending_searches, admin_actions, conv_search, conv_admin, inflight, today, engine, now>>

\* no connection is between the SELECT and the commit of use_credits()
Quiet == \A c \in Callers : calls[c].pc = "idle"

\* the ledger under consumes whose halves interleave with each other; accounts
\* are created and grants are made while no consume is in progress
NextConc ==
    \/ \E u \in UserIds :
          Quiet /\ start(u, <<>>) /\ UNCHANGED <<calls, inflight, today, engine, now>>
    \/ \E u \in ADMIN_IDS, args \in DirectArgs :
          Quiet /\ addcredits_command(u, args) /\ UNCHANGED <<calls, inflight, today, engine, now>>
    \/ \E c \in Callers, u \in Searchers :
          use_credits_select(c, u)
    \/ \E c \in Callers :
          use_credits_commit(c, <<"a", "@", "t", ".", "c", "o">>)

SpecConc == Init /\ [][NextConc]_vars

\* ------------------------------------------------------------------------
\* get_or_create_user() entered by several connections to the same database
\* ------------------------------------------------------------------------

\* start(): referrer_id = int(context.args[0]) when that parses, else None
ReferrerArg(args) == IF args # <<>> /\ isdigit(args[1]) THEN int(args[1]) ELSE Null

\* get_or_create_user(): the SELECT of the users row, which runs outside any
\* transaction; `return dict(user)` when the row is there
get_or_create_user_select(c, u, args) ==
    /\ calls[c].pc = "idle"
    /\ IF u \in DOMAIN users
       THEN /\ reply' = Reply(IF is_user_banned(DB, u) THEN "banned" ELSE "welcome",
                              FALSE, "not_called")
            /\ UNCHANGED calls
       ELSE /\ calls' = [calls EXCEPT ![c] = [pc |-> "creating", user_id |-> u,
                                              referrer_id |-> ReferrerArg(args)]]
            /\ UNCHANGED reply
    /\ UNCHANGED <<users, transactions, searches, referrals, pending_searches,
                   admin_actions, conv_search, conv_admin, inflight, today, engine, now>>

\* get_or_create_user(): the INSERTs, the UPDATE and the commit, one write
\* transaction. users.user_id is the PRIMARY KEY: when another connection
\* has inserted the row since the SELECT, INSERT INTO users raises
\* IntegrityError, the connection rolls back and start() dies without a reply
get_or_create_user_insert(c) ==
    /\ calls[c].pc = "creating"
    /\ calls' = [calls EXCEPT ![c] = Idle]
    /\ UNCHANGED <<pending_searches, admin_actions, conv_search, conv_admin, inflight, today, engine, now>>
    /\ IF calls[c].user_id \in DOMAIN users
       THEN /\ reply' = Reply("integrity_error", FALSE, "not_called")
            /\ UNCHANGED <<users, transactions, searches, referrals>>
       ELSE /\ Commit(CreateUser(DB, calls[c].user_id, calls[c].referrer_id))
            /\ reply' = Reply("welcome", FALSE, "not_called")

\* /start updates handled one at a time, and /start updates whose
\* get_or_create_user() calls interleave on two connections
NextStart ==
    \/ \E u \in UserIds, args \in StartArgs :
          start(u, args) /\ UNCHANGED <<calls, inflight, today, engine, now>>
    \/ \E c \in Callers, u \in UserIds, args \in StartArgs :
          get_or_create_user_select(c, u, args)
    \/ \E c \in Callers :
          get_or_create_user_insert(c)

SpecStart == Init /\ [][NextStart]_vars

\* ------------------------------------------------------------------------
\* The bot over several calendar days
\* ------------------------------------------------------------------------

\* midnight passes
Midnight ==
    /\ today < MaxDays
    /\ today' = today + 1
    /\ UNCHANGED <<users, transactions, searches, referrals, pending_searches,
                   admin_actions, conv_search, conv_admin, reply, calls, inflight, engine, now>>

\* accounts are created, read their balance with /mycredits and spend it
\* with /email while the days go by
NextDay ==
    \/ \E u \in UserIds :
          start(u, <<>>) /\ UNCHANGED <<calls, inflight, today, engine, now>>
    \/ \E u \in UserIds :
          mycredits_command(u) /\ UNCHANGED <<calls, inflight, today, engine, now>>
    \/ \E u \in UserIds, args \in EmailArgs :
          email_command(u, args) /\ UNCHANGED <<calls, inflight, today, engine, now>>
    \/ Midnight

SpecDay == Init /\ [][NextDay]_vars

\* ------------------------------------------------------------------------
\* AdvancedCreditSystem called operation by operation, each call one commit
\* ------------------------------------------------------------------------

\* a call of a ledger operation that returns db and answers text
LedgerCall(db, text) ==
    /\ Commit(db)
    /\ reply' = Reply(text, FALSE, "not_called")
    /\ UNCHANGED <<pending_searches, admin_actions, conv_search, conv_admin,
                   calls, inflight, today, engine, now>>

NextLedger ==
    \/ \E u \in UserIds, r \in UserIds \cup {Null} :
          LedgerCall(get_or_create_user(DB, u, r), "created")
    \/ \E u \in UserIds :
          LedgerCall(use_credits(DB, u, "email", <<"a">>, "", 1).db, "used")
    \/ \E u \in UserIds, a \in 1 .. MaxAmount, credit_type \in {"free", "paid"} :
          LedgerCall(add_credits_to_user(DB, u, a, 1, credit_type).db, "added")
    \/ \E u \in UserIds, a \in 1 .. MaxAmount :
          LedgerCall(remove_credits_from_user(DB, u, a, 1).db, "removed")

SpecLedger == Init /\ [][NextLedger]_vars

\* ------------------------------------------------------------------------
\* The interactive /addcredits session next to the users' searches
\* ------------------------------------------------------------------------

\* a callback query whose data starts with admin_: the admin conversation
\* takes it while it is running for the user; otherwise button_handler does,
\* which for these buttons writes nothing to the database
callback_admin(u, data) ==
    IF u \in conv_admin
    THEN admin_credit_type_handler(u, data)
    ELSE /\ reply' = Reply("none", FALSE, "not_called")
         /\ UNCHANGED <<users, transactions, searches, referrals, pending_searches,
                        admin_actions, conv_search, conv_admin>>

NextAdmin ==
    \/ \E u \in UserIds : start(u, <<>>) /\ UNCHANGED <<calls, inflight, today, engine, now>>
    \/ \E u \in UserIds, args \in AddCreditsArgs :
          addcredits_command(u, args) /\ UNCHANGED <<calls, inflight, today, engine, now>>
    \/ \E u \in UserIds, text \in AdminTexts :
          text_message(u, text) /\ UNCHANGED <<calls, inflight, today, engine, now>>
    \/ \E u \in UserIds, data \in AdminData :
          callback_admin(u, data) /\ UNCHANGED <<calls, inflight, today, engine, now>>
    \/ \E u \in UserIds :
          cancel_command(u) /\ UNCHANGED <<calls, inflight, today, engine, now>>
    \/ \E u \in Searchers, args \in SearchArgs \ {<<>>} :
          search_command(u, args) /\ UNCHANGED <<calls, inflight, today, engine, now>>
    \/ \E u \in Searchers, f \in BOOLEAN :
          format_selected_handler(u, "format_emailpass", f, FALSE)
          /\ UNCHANGED <<calls, inflight, today, engine, now>>

SpecAdmin == Init /\ [][NextAdmin]_vars

\* ------------------------------------------------------------------------
\* Bans: the administrator's ledger calls, the clock, and the search
\* conversation of the users
\* ------------------------------------------------------------------------

\* the longest ban, in hours
MaxBanHours == 2

\* the hours the clock runs
MaxHours == 3

\* an hour passes
Tick ==
    /\ now < MaxHours
    /\ now' = now + 1
    /\ UNCHANGED <<users, transactions, searches, referrals, pending_searches,
                   admin_actions, conv_search, conv_admin, reply, calls, inflight, today,
                   engine>>

\* credit_system.ban_user(user_id, admin_id, "spam", hours)
BanUser(user_id, hours) == LedgerCall(ban_user(DB, user_id, "spam", hours), "ban_returned_true")

\* credit_system.unban_user(user_id, admin_id)
UnbanUser(user_id) == LedgerCall(unban_user(DB, user_id), "unban_returned_true")

\* credit_system.is_user_banned(user_id), as the user information of the
\* administrator calls it
CheckBanned(user_id) ==
    LedgerCall(is_user_banned_db(DB, user_id),
               IF is_user_banned(DB, user_id) THEN "is_banned" ELSE "not_banned")

NextBan ==
    \/ \E u \in Searchers : start(u, <<>>) /\ UNCHANGED <<calls, inflight, today, engine, now>>
    \/ \E u \in Searchers, args \in SearchArgs :
          search_command(u, args) /\ UNCHANGED <<calls, inflight, today, engine, now>>
    \/ \E u \in Searchers, data \in FormatData :
          format_selected_handler(u, data, FALSE, FALSE)
          /\ UNCHANGED <<calls, inflight, today, engine, now>>
    \/ \E u \in UserIds, hours \in 0 .. MaxBanHours : BanUser(u, hours)
    \/ \E u \in UserIds : UnbanUser(u)
    \/ \E u \in UserIds : CheckBanned(u)
    \/ Tick

SpecBan == Init /\ [][NextBan]_vars

\* ------------------------------------------------------------------------
\* The search engine and its corpus
\* ------------------------------------------------------------------------

\* the search engine alone: the administrator uploads, removes and reloads,
\* files stop being readable, and the five searches are made
FileNames ==
    {document.file_name : document \in Documents} \cup {Disk[f].name : f \in 1 .. Len(Disk)}

NextEngine ==
    \/ \E document \in Documents, copy_fails \in BOOLEAN :
          handle_document(document, copy_fails) /\ EngineFrame
    \/ \E filename \in FileNames, remove_fails \in BOOLEAN :
          remove_data_file(filename, remove_fails) /\ EngineFrame
    \/ admin_reload /\ EngineFrame
    \/ \E f \in 1 .. Len(engine.disk) : ReadError(f) /\ EngineFrame
    \/ \E query \in DomainQueries, data \in FormatButtons :
          domain_search(query, data) /\ EngineFrame
    \/ \E email \in EmailQueries : email_search(email) /\ EngineFrame
    \/ \E login \in LoginQueries : login_search(login) /\ EngineFrame
    \/ \E password \in PasswordQueries : password_search(password) /\ EngineFrame
    \/ \E dni \in DniQueries : dni_search(dni) /\ EngineFrame
    \/ \E matching \in MatchCounts : sized_search(matching) /\ EngineFrame

SpecEngine == Init /\ [][NextEngine]_vars


\* ------------------------------------------------------------------------
\* The API-backed bot: CreditSystem and TelegramBotHandlers
\* ------------------------------------------------------------------------

\* CreditSystem.get_or_create_user(user_id)
CreditSystem_get_or_create_user(us, user_id) ==
    IF user_id \in DOMAIN us
    THEN us
    ELSE Put(us, user_id, [free_credits |-> MAX_FREE_CREDITS, total_searches |-> 0])

\* CreditSystem.get_user_credits(user_id)
CreditSystem_get_user_credits(us, user_id) ==
    IF user_id \in DOMAIN us THEN us[user_id].free_credits ELSE 0

\* CreditSystem.has_credits(user_id)
CreditSystem_has_credits(us, user_id) == CreditSystem_get_user_credits(us, user_id) > 0

\* CreditSystem.use_credits(...): the UPDATE touches no row of an unknown id;
\* the INSERT always adds one; returns True
CreditSystem_use_credits(us, rows, user_id, search_type, query, format_used, results_count) ==
    [users |-> IF user_id \in DOMAIN us
               THEN [us EXCEPT ![user_id] = [@ EXCEPT !.free_credits = @ - 1,
                                                      !.total_searches = @ + 1]]
               ELSE us,
     searches |-> Append(rows, [user_id |-> user_id, search_type |-> search_type,
                                query |-> query, format_used |-> format_used,
                                results_count |-> results_count])]

\* an add_credits() that refuses a grant that would reach MAX_FREE_CREDITS
CreditSystem_add_credits_refusing(us, user_id, amount) ==
    IF user_id \notin DOMAIN us \/ us[user_id].free_credits + amount >= MAX_FREE_CREDITS
    THEN us
    ELSE [us EXCEPT ![user_id].free_credits = @ + amount]

\* CreditSystem.add_credits(user_id, amount, admin_id): the table after it
CreditSystem_add_credits(us, user_id, amount) ==
    IF user_id \notin DOMAIN us
    THEN us
    ELSE LET current   == us[user_id].free_credits
             new_total == IF current + amount < MAX_FREE_CREDITS
                          THEN current + amount ELSE MAX_FREE_CREDITS
         IN  [us EXCEPT ![user_id].free_credits = new_total]

\* UPDATE searches SET results_count = ? WHERE user_id = ? AND query = ?
\*   ORDER BY id DESC LIMIT 1
UpdateLastResultsCount(rows, user_id, query, total_results) ==
    LET hits == {i \in DOMAIN rows : rows[i].user_id = user_id /\ rows[i].query = query}
    IN  IF hits = {} THEN rows
        ELSE LET last == CHOOSE i \in hits : \A j \in hits : j <= i
             IN  [rows EXCEPT ![last].results_count = total_results]

\* no handler of the API-backed bot is awaiting the API: updates are handled
\* one at a time
NoRequest == inflight = Empty

ApiUnchanged == UNCHANGED <<transactions, referrals, admin_actions, conv_admin, calls, today,
                             engine, now>>

\* /start
TelegramBotHandlers_start(u) ==
    /\ NoRequest
    /\ users' = CreditSystem_get_or_create_user(users, u)
    /\ reply' = Reply("welcome", FALSE, "not_called")
    /\ UNCHANGED <<searches, pending_searches, conv_search, inflight>>
    /\ ApiUnchanged

\* /search <dominio>: the entry point of the conversation, taken only while
\* the conversation is not running
TelegramBotHandlers_search_command(u, args) ==
    /\ NoRequest
    /\ u \notin conv_search
    /\ UNCHANGED <<users, searches, inflight>>
    /\ ApiUnchanged
    /\ IF ~CreditSystem_has_credits(users, u)
       THEN /\ reply' = Reply("no_credits", FALSE, "not_called")
            /\ UNCHANGED <<pending_searches, conv_search>>
       ELSE IF args = <<>>
       THEN /\ reply' = Reply("usage", FALSE, "not_called")
            /\ UNCHANGED <<pending_searches, conv_search>>
       ELSE /\ pending_searches' = Put(pending_searches, u,
                                       [type |-> "domain", query |-> args[1], offset |-> 0])
            /\ reply' = Reply("choose_format", FALSE, "not_called")
            /\ conv_search' = conv_search \cup {u}

\* perform_search_with_format() and perform_search() up to their await of
\* api.search_with_format(): the credit is used, then the request is sent.
\* free_before is the balance the handler was entered with
SendRequest(u, via, search_type, query, format_choice) ==
    LET used == CreditSystem_use_credits(users, searches, u, search_type, query,
                                         format_choice, 0)
    IN  /\ Len(searches) < MaxSearches
        /\ users' = used.users
        /\ searches' = used.searches
        /\ inflight' = Put(Empty, u, [via |-> via, search_type |-> search_type,
                                      query |-> query, format_choice |-> format_choice,
                                      free_before |-> CreditSystem_get_user_credits(users, u)])
        /\ reply' = Reply("searching", TRUE, "True")

\* /email <correo>; /login and /pass are registered with this handler too
TelegramBotHandlers_email_command(u, args) ==
    /\ NoRequest
    /\ UNCHANGED <<pending_searches, conv_search>>
    /\ ApiUnchanged
    /\ IF ~CreditSystem_has_credits(users, u)
       THEN /\ reply' = Reply("no_credits", FALSE, "not_called")
            /\ UNCHANGED <<users, searches, inflight>>
       ELSE IF args = <<>>
       THEN /\ reply' = Reply("usage", FALSE, "not_called")
            /\ UNCHANGED <<users, searches, inflight>>
       ELSE IF ~Contains(<<"@">>, args[1]) \/ ~Contains(<<".">>, args[1])
       THEN /\ reply' = Reply("invalid", FALSE, "not_called")
            /\ UNCHANGED <<users, searches, inflight>>
       ELSE SendRequest(u, "perform_search", "email", args[1], "password_only")

\* a format_* button, handled while the conversation is in CHOOSING_FORMAT
TelegramBotHandlers_format_selected(u, data) ==
    /\ NoRequest
    /\ u \in conv_search
    /\ ApiUnchanged
    /\ IF u \notin DOMAIN pending_searches
       THEN /\ reply' = Reply("expired", FALSE, "not_called")
            /\ conv_search' = conv_search \ {u}
            /\ UNCHANGED <<users, searches, pending_searches, inflight>>
       ELSE IF data = "format_cancel"
       THEN /\ reply' = Reply("cancelled", FALSE, "not_called")
            /\ pending_searches' = Del(pending_searches, u)
            /\ conv_search' = conv_search \ {u}
            /\ UNCHANGED <<users, searches, inflight>>
       ELSE /\ SendRequest(u, "perform_search_with_format", pending_searches[u].type,
                           pending_searches[u].query, format_map(data))
            /\ UNCHANGED <<pending_searches, conv_search>>

\* api.search_with_format() returns (success, raw_result) and the handler runs
\* to its end. update_limit: the SQLite build accepts UPDATE ... ORDER BY ...
\* LIMIT; without it the UPDATE raises and the handler dies there
search_with_format_returns(u, success, raw_result, update_limit) ==
    LET request       == inflight[u]
        lines         == split(strip(raw_result), "\n")
        total_results == IF lines[1] # <<>> THEN Len(lines) ELSE 0
        raised        == success /\ total_results > 0 /\ ~update_limit
        ended         == request.via = "perform_search_with_format" /\ ~raised
    IN  /\ u \in DOMAIN inflight
        /\ inflight' = Empty
        /\ ApiUnchanged
        /\ pending_searches' = IF ended THEN Del(pending_searches, u) ELSE pending_searches
        /\ conv_search' = IF ended THEN conv_search \ {u} ELSE conv_search
        /\ IF ~success
           THEN /\ users' = CreditSystem_add_credits(users, u, 1)
                /\ reply' = Reply("error_refunded", TRUE, "True")
                /\ UNCHANGED searches
           ELSE IF total_results = 0
           THEN /\ users' = CreditSystem_add_credits(users, u, 1)
                /\ reply' = Reply("no_results_refunded", TRUE, "True")
                /\ UNCHANGED searches
           ELSE IF raised
           THEN /\ reply' = Reply("none", TRUE, "True")
                /\ UNCHANGED <<users, searches>>
           ELSE /\ searches' = UpdateLastResultsCount(searches, u, request.query, total_results)
                /\ reply' = Reply(Delivery(total_results), TRUE, "True")
                /\ UNCHANGED users

\* what the API answers with: nothing, one line, two lines
RawResults == {<<>>, <<"a", ":", "b">>, <<"a", ":", "b", "\n", "c", ":", "d">>}

\* /search, /search t.co
ApiSearchArgs == {<<>>, <<<<"t", ".", "c", "o">>>>}

\* /email, /email a@t.co, /email ab
ApiEmailArgs == {<<>>, <<<<"a", "@", "t", ".", "c", "o">>>>, <<<<"a", "b">>>>}

NextApi ==
    \/ \E u \in UserIds : TelegramBotHandlers_start(u)
    \/ \E u \in Searchers, args \in ApiSearchArgs : TelegramBotHandlers_search_command(u, args)
    \/ \E u \in Searchers, args \in ApiEmailArgs : TelegramBotHandlers_email_command(u, args)
    \/ \E u \in Searchers, data \in FormatData : TelegramBotHandlers_format_selected(u, data)
    \/ \E u \in Searchers, success \in BOOLEAN, raw_result \in RawResults, update_limit \in BOOLEAN :
          search_with_format_returns(u, success, raw_result, update_limit)

SpecApi == Init /\ [][NextApi]_vars

\* ------------------------------------------------------------------------
\* Properties of the credit ledger and of the gated searches
\* ------------------------------------------------------------------------

Free(u) == users[u].free_credits

Paid(u) == users[u].paid_credits

\* the outcome messages that carry results
Delivered == {"results_message", "results_txt", "results_zip"}

\* the step is a format button pressed by u
FormatStep(u) ==
    \E data \in FormatData, f1 \in BOOLEAN, f2 \in BOOLEAN : format_selected_handler(u, data, f1, f2)

\* the step is one of u's credit-gated commands
GatedCommandStep(u) ==
    \/ \E args \in SearchArgs : search_command(u, args)
    \/ \E args \in EmailArgs : email_command(u, args)
    \/ \E args \in DniArgs : dni_command(u, args)

\* the step is a handler of u that may call use_credits
ConsumeStep(u) ==
    \/ FormatStep(u)
    \/ \E args \in EmailArgs : email_command(u, args)
    \/ \E args \in DniArgs : dni_command(u, args)

\* C1: a consume on an account whose free_credits and paid_credits are both 0
\* returns false and changes nothing: no balance, no counter, no log row
C1_EmptyLedgerConsumeRefused ==
    [][\A u \in DOMAIN users :
          (Free(u) = 0 /\ Paid(u) = 0 /\ ConsumeStep(u) /\ reply'.consumed # "not_called")
          => (reply'.consumed = "False"
              /\ UNCHANGED <<users, transactions, searches, referrals>>)]_vars

\* C2: in every reachable state every account has free_credits >= 0 and
\* paid_credits >= 0
C2_BalancesNonNegative ==
    \A u \in DOMAIN users : Free(u) >= 0 /\ Paid(u) >= 0

\* use_credits alone appends to searches: the step is a consume by u, and
\* nothing else touched the ledger in it (no refund followed)
Consumed(u) ==
    /\ Len(searches') = Len(searches) + 1
    /\ searches'[Len(searches')].user_id = u
    /\ Len(transactions') = Len(transactions) + 1

\* C3: a successful consume takes the credit from the free pool while it holds
\* any (free - 1, paid unchanged), and from the paid pool only when the free
\* pool is empty (paid - 1, free stays 0)
C3_PoolPrecedence ==
    [][\A u \in DOMAIN users :
          Consumed(u)
          => /\ Free(u) > 0 => (Free(u)' = Free(u) - 1 /\ Paid(u)' = Paid(u))
             /\ (Free(u) = 0 /\ Paid(u) > 0) => (Paid(u)' = Paid(u) - 1 /\ Free(u)' = 0)]_vars

\* C3, its case: an account that was granted one paid credit, spent its two
\* free credits and then the paid one
C3_PaidPoolDrawn ==
    \E u \in DOMAIN users :
        /\ Free(u) = 0 /\ Paid(u) = 0 /\ users[u].total_searches = 3
        /\ reply.consumed = "True" /\ reply.text \in Delivered
        /\ \E i \in DOMAIN transactions :
              transactions[i].user_id = u /\ transactions[i].type = "admin_add_paid"
        /\ \A i \in DOMAIN transactions : transactions[i].type # "referral_bonus"
        /\ transactions[Len(transactions)] =
              Tx(u, 1, 0, 1, "search_used", Null)

\* C4: every successful consume adds exactly 1 to total_searches and takes
\* exactly 1 from free_credits + paid_credits, so N of them add N and take N
\* (the handlers of Spec run one after another, as the dispatcher runs them;
\* consumes that overlap on two connections are the subject of C5)
C4_ConsumeConservation ==
    [][\A u \in DOMAIN users :
          Consumed(u)
          => /\ users'[u].total_searches = users[u].total_searches + 1
             /\ Free(u)' + Paid(u)' = Free(u) + Paid(u) - 1]_vars

\* C4, its case: an account that consumed twice
C4_TwoConsumes ==
    \E u \in DOMAIN users :
        /\ users[u].total_searches = 2
        /\ reply.consumed = "True" /\ reply.text \in Delivered
        /\ transactions[Len(transactions)].type = "search_used"
        /\ transactions[Len(transactions)].user_id = u

\* the credits the transactions table says u was given
RECURSIVE Granted(_, _)
Granted(txs, u) ==
    IF txs = <<>> THEN 0
    ELSE (IF Head(txs).user_id = u /\ Head(txs).type # "search_used"
          THEN Head(txs).amount ELSE 0) + Granted(Tail(txs), u)

\* the rows of the transactions table that record a consume of u
UsedRows(u) ==
    {i \in DOMAIN transactions :
        transactions[i].user_id = u /\ transactions[i].type = "search_used"}

\* C5: no update of a consume is lost when consumes of one account overlap:
\* every consume that succeeded lowered free_credits + paid_credits by one (two
\* of them leave it 2 lower), and two consumes with no grant between them are
\* recorded with different credits_before, so they did not read the same
\* balance
C5_NoLostUpdate ==
    \A u \in DOMAIN users :
        /\ Free(u) + Paid(u) = Granted(transactions, u) - Cardinality(UsedRows(u))
        /\ \A i \in UsedRows(u), j \in UsedRows(u) :
              (i < j /\ \A k \in (i + 1) .. (j - 1) : transactions[k].user_id # u)
              => transactions[i].credits_before # transactions[j].credits_before

\* C6: when the format callback executes a pending /search for an account
\* whose total credit is 0, no results are delivered and no credit counter
\* of any account changes
C6_NoCreditNoGatedSearch ==
    [][\A u \in UserIds :
          (get_user_credits(DB, u).total = 0 /\ u \in DOMAIN pending_searches /\ FormatStep(u))
          => (reply'.text \notin Delivered /\ UNCHANGED users)]_vars

\* C7: has_enough_credits is true exactly when free_credits + paid_credits > 0
\* (false for an unknown account), and a /search, /email or /dni of an account
\* for which it is false searches nothing, records no pending search and
\* changes nothing in the ledger
C7_GateRefusesWithoutCredit ==
    [][\A u \in UserIds :
          /\ has_enough_credits(DB, u) <=>
                (u \in DOMAIN users /\ Free(u) + Paid(u) > 0)
          /\ (~has_enough_credits(DB, u) /\ GatedCommandStep(u))
             => (/\ reply'.text = "no_credits"
                 /\ reply'.searched = FALSE
                 /\ UNCHANGED <<users, transactions, searches, referrals, pending_searches>>)]_vars

\* C7, its case: an account that spent its credits, has a search pending from
\* before, and was refused
C7_RefusedAtZero ==
    \E u \in DOMAIN users :
        /\ Free(u) + Paid(u) = 0
        /\ users[u].total_searches > 0
        /\ u \in DOMAIN pending_searches
        /\ reply = Reply("no_credits", FALSE, "not_called")

\* C8: a search that finds nothing (by domain, email or DNI) leaves
\* free_credits, paid_credits and total_searches as they were and adds no
\* transactions row and no searches row
C8_ZeroResultsCostNothing ==
    [][\A u \in UserIds :
          /\ (FormatStep(u) /\ u \in DOMAIN pending_searches /\ reply'.searched
                /\ SearchDomain[pending_searches[u].query] = <<>>)
             => UNCHANGED <<users, transactions, searches>>
          /\ (\E args \in EmailArgs \ {<<>>} :
                 /\ email_command(u, args) /\ reply'.searched
                 /\ SearchEmail[lower(args[1])] = <<>>)
             => UNCHANGED <<users, transactions, searches>>
          /\ (\E args \in DniArgs \ {<<>>} :
                 /\ dni_command(u, args) /\ reply'.searched
                 /\ SearchDni[upper(args[1])] = [as_login |-> <<>>, as_password |-> <<>>])
             => UNCHANGED <<users, transactions, searches>>]_vars

\* C9: the credit is decremented only after the search has returned a
\* non-empty result: in no reachable state has the credit of a request been
\* taken while the outcome of that request is still unknown
C9_ConsumeAfterOutcome ==
    \A u \in DOMAIN inflight :
        CreditSystem_get_user_credits(users, u) = inflight[u].free_before

\* C10: the first /start of an id creates exactly one account, with
\* free_credits = MAX_FREE_CREDITS, paid_credits = 0 and total_searches = 0,
\* whatever the referral argument is; a /start of an existing id changes
\* nothing in the ledger
C10_LazyCreation ==
    [][\A u \in UserIds :
          (\E args \in StartArgs : start(u, args))
          => IF u \in DOMAIN users
             THEN UNCHANGED <<users, transactions, searches, referrals>>
             ELSE /\ DOMAIN users' = DOMAIN users \cup {u}
                  /\ users'[u].free_credits = MAX_FREE_CREDITS
                  /\ users'[u].paid_credits = 0
                  /\ users'[u].total_searches = 0]_vars

\* the referrals rows of the pair (r, u)
PairRows(r, u) ==
    {i \in DOMAIN referrals :
        referrals[i].referrer_id = r /\ referrals[i].referred_id = u}

\* the referral_bonus rows of the transactions table that credit r
BonusRows(r) ==
    {i \in DOMAIN transactions :
        transactions[i].user_id = r /\ transactions[i].type = "referral_bonus"}

\* C11: however often /start <r> is issued by u, in sequence or with two
\* get_or_create_user() calls for the same new id interleaved, the pair (r, u)
\* has at most one referrals row and one referral_bonus transaction, and r is
\* credited at most once for it
C11_ReferralFiresOnce ==
    \A r \in UserIds :
        /\ \A u \in UserIds : Cardinality(PairRows(r, u)) <= 1
        /\ Cardinality(BonusRows(r)) = Cardinality(UNION {PairRows(r, u) : u \in UserIds})
        /\ r \in DOMAIN users =>
              /\ users[r].referral_count <= Cardinality(BonusRows(r))
              /\ Free(r) <= MAX_FREE_CREDITS + Cardinality(BonusRows(r))

\* C11, its case: u was created with the code of an existing r, r was credited
\* once, and a second creation of u that had raced the first one was refused
C11_RacingStartRefused ==
    \E r \in DOMAIN users, u \in DOMAIN users :
        /\ r # u
        /\ Cardinality(PairRows(r, u)) = 1
        /\ users[r].referral_count = 1 /\ Free(r) = MAX_FREE_CREDITS + 1
        /\ reply.text = "integrity_error"

\* C12: a new user who starts the bot with their own id as the referral code
\* is created with exactly MAX_FREE_CREDITS free credits; no referrals row and
\* no referral_bonus transaction is written and no other account changes
C12_SelfReferralRejected ==
    [][\A u \in UserIds :
          (u \notin DOMAIN users /\ start(u, <<Digits(u)>>))
          => /\ users'[u].free_credits = MAX_FREE_CREDITS
             /\ users'[u].paid_credits = 0
             /\ referrals' = referrals
             /\ Len(transactions') = Len(transactions) + 1
             /\ \A v \in DOMAIN users : users'[v] = users[v]]_vars

\* C13: a new user created with the id of an account that does not exist as
\* the referral code gets no referrals row, no referral_bonus transaction and
\* no referrer_id naming that id
C13_UnknownReferrerNoPartialMutation ==
    [][\A u \in UserIds : \A r \in UserIds \ {u} :
          (u \notin DOMAIN users /\ r \notin DOMAIN users /\ start(u, <<Digits(r)>>))
          => /\ referrals' = referrals
             /\ Len(transactions') = Len(transactions) + 1
             /\ users'[u].referrer_id # r]_vars

\* C14: the referrals table never holds two rows with the same referred_id,
\* and every row names a referred account and a referrer that is an existing
\* account other than the referred one (accounts are never deleted, so a
\* referrer that was valid at creation is still there)
C14_ReferralRowsValid ==
    /\ \A i \in DOMAIN referrals, j \in DOMAIN referrals :
          referrals[i].referred_id = referrals[j].referred_id => i = j
    /\ \A i \in DOMAIN referrals :
          /\ referrals[i].referred_id \in DOMAIN users
          /\ referrals[i].referrer_id \in DOMAIN users
          /\ referrals[i].referrer_id # referrals[i].referred_id

\* C15: when a new user is created with the code of an existing other account,
\* that referrer's paid_credits grow by the bonus of 1 and its free_credits
\* stay as they were
C15_BonusToPaidPool ==
    [][\A u \in UserIds : \A r \in UserIds \ {u} :
          (u \notin DOMAIN users /\ r \in DOMAIN users /\ start(u, <<Digits(r)>>))
          => /\ Paid(r)' = Paid(r) + 1
             /\ Free(r)' = Free(r)]_vars

\* C16: when the date differs from the account's last_daily_reset, a balance
\* read (/mycredits) or a consume (/email that finds something) first sets
\* free_credits to exactly MAX_FREE_CREDITS and last_daily_reset to the date:
\* after the read the account holds MAX_FREE_CREDITS free credits, after the
\* consume one less, however many days have passed
C16_DailyRollover ==
    [][\A u \in DOMAIN users :
          /\ users[u].last_daily_reset # today
          /\ \/ mycredits_command(u)
             \/ email_command(u, <<<<"A", "@", "t", ".", "c", "o">>>>)
          => /\ users'[u].last_daily_reset = today
             /\ Free(u)' = MAX_FREE_CREDITS - (IF reply'.consumed = "True" THEN 1 ELSE 0)
             /\ Paid(u)' = Paid(u)]_vars

\* C17: /addcredits <id> <n> [paid] for an id that has no account creates the
\* account and leaves it with the creation defaults plus n in the named pool
C17_GrantCreatesAccount ==
    [][\A t \in Searchers : \A a \in 1 .. MaxAmount :
          /\ (t \notin DOMAIN users /\ addcredits_command(1, <<Digits(t), Digits(a), "paid">>))
             => /\ t \in DOMAIN users'
                /\ users'[t].free_credits = MAX_FREE_CREDITS
                /\ users'[t].paid_credits = a
          /\ (t \notin DOMAIN users /\ addcredits_command(1, <<Digits(t), Digits(a)>>))
             => /\ t \in DOMAIN users'
                /\ users'[t].free_credits = MAX_FREE_CREDITS + a
                /\ users'[t].paid_credits = 0]_vars

\* C18: /addcredits <id> <n> (the free pool) for an existing account succeeds
\* for every n > 0 and leaves free_credits = free_credits + n, above
\* MAX_FREE_CREDITS too
C18_FreeGrantNotClamped ==
    [][\A t \in Searchers : \A a \in 1 .. MaxAmount :
          (t \in DOMAIN users /\ addcredits_command(1, <<Digits(t), Digits(a)>>))
          => /\ reply'.text = "added"
             /\ Free(t)' = Free(t) + a
             /\ Paid(t)' = Paid(t)]_vars

\* what /addcredits answers
GrantReplies == {"added", "limit", "not_found", "amount_error", "format_error", "admins_only"}

\* C19: a /addcredits that succeeds adds exactly the amount to the named pool
\* of the target, leaves the other pool, total_searches and every other
\* account as they were and appends exactly one admin_add_<pool> transaction
\* of that amount for the target; one that is rejected changes no balance and
\* appends no transaction
C19_GrantFrame ==
    [][\A u \in UserIds : \A args \in DirectArgs :
          (reply'.text \in GrantReplies /\ addcredits_command(u, args))
          => IF reply'.text = "added"
             THEN LET t    == int(args[1])
                      a    == int(args[2])
                      pool == IF Len(args) > 2 THEN args[3] ELSE "free"
                  IN  /\ t \in DOMAIN users
                      /\ users' = [users EXCEPT
                                     ![t].free_credits = IF pool = "free" THEN @ + a ELSE @,
                                     ![t].paid_credits = IF pool = "paid" THEN @ + a ELSE @]
                      /\ Len(transactions') = Len(transactions) + 1
                      /\ SubSeq(transactions', 1, Len(transactions)) = transactions
                      /\ transactions'[Len(transactions')].user_id = t
                      /\ transactions'[Len(transactions')].amount = a
                      /\ transactions'[Len(transactions')].type =
                            (IF pool = "free" THEN "admin_add_free" ELSE "admin_add_paid")
             ELSE UNCHANGED <<users, transactions>>]_vars

\* C19, its case: a grant to the free pool of an account that had spent from
\* it went through
C19_FreeGrantAdded ==
    \E t \in DOMAIN users :
        /\ reply.text = "added"
        /\ users[t].total_searches > 0
        /\ transactions[Len(transactions)].user_id = t
        /\ transactions[Len(transactions)].type = "admin_add_free"

\* the transactions rows the step appended for u
NewRows(u) ==
    {i \in (Len(transactions) + 1) .. Len(transactions') : transactions'[i].user_id = u}

\* what the rows i of transactions' say happened to the total, added up
RECURSIVE RowsDelta(_, _)
RowsDelta(txs, rows) ==
    IF rows = {} THEN 0
    ELSE LET i == CHOOSE j \in rows : TRUE
         IN  (txs[i].credits_after - txs[i].credits_before) + RowsDelta(txs, rows \ {i})

\* the step changed free_credits or paid_credits of u, or created u
BalanceChanged(u) ==
    /\ u \in DOMAIN users'
    /\ \/ u \notin DOMAIN users
       \/ Free(u)' # Free(u)
       \/ Paid(u)' # Paid(u)

\* C20: the transactions table only grows at its end, and a committed step
\* that changes free_credits or paid_credits of an account appends for each
\* change (creation grant, consume, admin grant, admin removal, referral
\* bonus) exactly one row for that account: one row per kind of change, and
\* the rows add up to the change of the total
C20_EveryChangeLogged ==
    [][/\ Len(transactions') >= Len(transactions)
       /\ SubSeq(transactions', 1, Len(transactions)) = transactions
       /\ \A u \in UserIds :
             BalanceChanged(u)
             => /\ NewRows(u) # {}
                /\ \A i \in NewRows(u), j \in NewRows(u) :
                      transactions'[i].type = transactions'[j].type => i = j
                /\ RowsDelta(transactions', NewRows(u)) =
                      get_user_credits([users |-> users'], u).total
                        - get_user_credits(DB, u).total]_vars

\* C20, its case: an account that was credited for a referral, consumed, was
\* granted a paid credit and then had a credit removed
C20_AllKindsLogged ==
    \E u \in DOMAIN users :
        /\ \A t \in {"free_grant", "referral_bonus", "search_used", "admin_add_paid"} :
              \E i \in DOMAIN transactions :
                  transactions[i].user_id = u /\ transactions[i].type = t
        /\ transactions[Len(transactions)].user_id = u
        /\ transactions[Len(transactions)].type = "admin_remove"
        /\ reply.text = "removed"

\* C27: in every reachable state every account has
\* free_credits <= MAX_FREE_CREDITS
C27_FreeCreditCap ==
    \A u \in DOMAIN users : Free(u) <= MAX_FREE_CREDITS

\* /login and /pass are registered with email_command as their callback
login_command(u, args) == email_command(u, args)

pass_command(u, args) == email_command(u, args)

\* C28: /login <usuario> searches by login and /pass <contraseña> by password
\* whatever the argument looks like: /login 00000000T and /pass p1, issued by
\* an account that has credit, search the corpus and deliver the lines whose
\* second, respectively third, field is the argument
C28_LoginPassRouted ==
    [][\A u \in Searchers :
          LET login    == <<"0", "0", "0", "0", "0", "0", "0", "0", "T">>
              password == <<"p", "1">>
          IN  /\ (has_enough_credits(DB, u) /\ login_command(u, <<login>>))
                 => /\ reply'.searched
                    /\ search_login(DataFiles, login) # <<>> => reply'.text \in Delivered
              /\ (has_enough_credits(DB, u) /\ pass_command(u, <<password>>))
                 => /\ reply'.searched
                    /\ search_password(DataFiles, password) # <<>> => reply'.text \in Delivered]_vars

\* C29: when a new user is created through the link of an existing other
\* account, the referrer gains 1 free credit and the new user starts with 1
\* free credit more than MAX_FREE_CREDITS
C29_BothGainCredit ==
    [][\A u \in UserIds : \A r \in UserIds \ {u} :
          (u \notin DOMAIN users /\ r \in DOMAIN users /\ start(u, <<Digits(r)>>))
          => /\ Free(r)' = Free(r) + 1
             /\ Free(u)' = MAX_FREE_CREDITS + 1]_vars

\* ------------------------------------------------------------------------
\* Properties of the search engine
\* ------------------------------------------------------------------------

\* help_command(): "<100 resultados -> Mensaje", "100-10,000 -> Archivo .txt",
\* ">10,000 -> Archivo .zip"
HelpTxtFrom == 100

HelpTxtTo == 10000

HelpDelivery(n) ==
    IF n < HelpTxtFrom THEN "results_message"
    ELSE IF n <= HelpTxtTo THEN "results_txt"
    ELSE "results_zip"

SearchOps == {"domain", "email", "login", "password", "dni"}

\* the step is one of the five searches (no other step gives a search outcome)
SearchStep == engine'.out # engine.out /\ engine'.out.op \in SearchOps

\* the step is execute_search() for a domain
DomainSearchStep == engine'.out # engine.out /\ engine'.out.op = "domain"

\* the step ran load_all_data(): an upload that was processed, a removal that
\* returned True, a reload
LoadStep ==
    /\ engine' # engine
    /\ \/ engine'.out.op = "reload"
       \/ engine'.out.op = "document" /\ engine'.out.text = "processed"
       \/ engine'.out.op = "remove" /\ engine'.out.ret
    /\ \A f \in 1 .. Len(engine.disk) : ~ReadError(f)

Elements(xs) == {xs[i] : i \in 1 .. Len(xs)}

\* the non-empty lines of a file, stripped
FileLines(lines) == {strip(lines[n]) : n \in 1 .. Len(lines)} \ {<<>>}

\* the non-empty lines of the files that can be read
CorpusLines(files) ==
    UNION {FileLines(files[f]) : f \in {g \in 1 .. Len(files) : files[g] # Unreadable}}

AllReadable(disk) == \A f \in 1 .. Len(disk) : disk[f].readable

\* the files with no line at all in place of each file that cannot be read
Emptied(files) == [f \in 1 .. Len(files) |-> IF files[f] = Unreadable THEN <<>> ELSE files[f]]

\* an index without the entries of the files that cannot be read
KeepReadable(files, idx) ==
    [i \in 1 .. Len(idx) |->
        [idx[i] EXCEPT !.locs = SelectSeq(@, LAMBDA loc : files[loc.file] # Unreadable)]]

\* C21: a domain search returns one result for every indexed line, of a file
\* that can be read, whose key contains the query: however many lines and
\* however many distinct keys match
C21_NoTruncation ==
    [][DomainSearchStep =>
          LET files == Files(engine'.disk)
              idx   == engine'.index.domain_index
              keys  == {i \in 1 .. Len(idx) : Contains(engine'.out.query, idx[i].key)}
              hits  == UNION {{<<i, j>> : j \in {k \in 1 .. Len(idx[i].locs) :
                                                   files[idx[i].locs[k].file] # Unreadable}} :
                              i \in keys}
          IN  /\ engine'.out.total_found = Len(engine'.out.results)
              /\ engine'.out.total_found = Cardinality(hits)]_vars

\* C22: the result sequence of a search holds no two equal strings, and the
\* count is the number of distinct results
C22_NoDuplicates ==
    [][SearchStep =>
          /\ \A i, j \in 1 .. Len(engine'.out.results) :
                i # j => engine'.out.results[i] # engine'.out.results[j]
          /\ engine'.out.total_found = Cardinality(Elements(engine'.out.results))]_vars

\* C23: with every file readable and the index loaded from the files as they
\* are, a domain search for q returns exactly the non-empty lines of the corpus
\* that contain q, case-insensitively, anywhere in the line
C23_MatchCompleteness ==
    [][(/\ DomainSearchStep
        /\ AllReadable(engine'.disk)
        /\ engine'.index = load_all_data(Files(engine'.disk)))
       => Elements(engine'.out.results)
             = {line \in CorpusLines(Files(engine'.disk)) :
                   Contains(engine'.out.query, lower(line))}]_vars

\* C24: a file that cannot be read is skipped and the other files are
\* processed: load_all_data() builds the index the readable files alone give,
\* and each search returns what it returns on the readable files alone
C24_ReadErrorSkipsFile ==
    [][LET files == Files(engine'.disk)
           out   == engine'.out
           kept  == [domain_index |-> KeepReadable(files, engine'.index.domain_index),
                     email_index |-> KeepReadable(files, engine'.index.email_index)]
           dni   == search_dni(Emptied(files), out.query)
       IN  /\ LoadStep => engine'.index = load_all_data(Emptied(files))
           /\ SearchStep =>
                 out.results =
                    CASE out.op = "domain"   -> search_domain(files, kept, out.query)
                      [] out.op = "email"    -> search_email(files, kept, out.query)
                      [] out.op = "login"    -> search_login(Emptied(files), out.query)
                      [] out.op = "password" -> search_password(Emptied(files), out.query)
                      [] out.op = "dni"      -> dni.as_login \o dni.as_password]_vars

\* C24 witness: the first of two files cannot be read, the index was loaded
\* without it, and the search by login returned the line of the second file
C24_Witness ==
    /\ Len(engine.disk) = Len(Disk)
    /\ ~engine.disk[1].readable
    /\ engine.index # Index
    /\ engine.index = load_all_data(Emptied(Files(engine.disk)))
    /\ engine.out.op = "login"
    /\ engine.out.results = <<strip(DataFiles[2][1])>>

\* C25: once a document is processed, a domain search returns every line of it
\* that contains the query; once remove_data_file returns True, no search
\* returns a line that only the removed file held
C25_IngestionVisible ==
    [][LET out == engine'.out
           idx == engine'.index
           files == Files(engine'.disk)
       IN  /\ (out.op = "document" /\ out.text = "processed" /\ engine' # engine)
              => \A document \in Documents : \A query \in DomainQueries :
                    document.file_name = out.file_name
                    => {line \in FileLines(document.lines) : Contains(lower(query), lower(line))}
                          \subseteq Elements(search_domain(files, idx, lower(query)))
           /\ (out.op = "remove" /\ out.ret /\ engine' # engine)
              => \A f \in 1 .. Len(engine.disk) : \A query \in DomainQueries :
                    engine.disk[f].name = out.file_name
                    => Elements(search_domain(files, idx, lower(query)))
                          \cap (FileLines(engine.disk[f].lines) \ CorpusLines(files)) = {}]_vars

\* C26: the output mode chosen gives the shape of what is sent: identifier and
\* secret without the URL in front in pair mode, the whole line in full-line
\* mode, the identifier alone in identifier-only mode
C26_FormatShapesOutput ==
    [][DomainSearchStep =>
          LET out == engine'.out
              parts(i)      == split(out.results[i], ":")
              identifier(i) == IF Len(parts(i)) >= 2 THEN parts(i)[Len(parts(i)) - 1] ELSE <<>>
              secret(i)     == parts(i)[Len(parts(i))]
          IN  \A i \in 1 .. Len(out.sent) :
                 out.sent[i] = CASE out.format = "login:pass" -> identifier(i) \o <<":">> \o secret(i)
                                 [] out.format = "url"        -> identifier(i)
                                 [] OTHER                     -> out.results[i]]_vars

\* C30: n results are sent as the help text says: fewer than 100 in a message,
\* 100 to 10,000 in a .txt file, more than 10,000 in a .zip file
C30_DeliveryAsHelpSays ==
    engine.out.op = "sized" => engine.out.text = HelpDelivery(engine.out.total_found)

\* ------------------------------------------------------------------------
\* Properties of refunds, bans, sessions and bookkeeping
\* ------------------------------------------------------------------------

\* C31: when execute_search fails and reports the credit as refunded, the
\* user's free_credits + paid_credits is what it was before the search started
C31_RefundExact ==
    [][\A u \in DOMAIN users :
          (reply'.text = "error_refunded" /\ u \in conv_search /\ FormatStep(u))
          => Free(u)' + Paid(u)' = Free(u) + Paid(u)]_vars

\* C32: in the API-backed bot, after a search that fails or returns no
\* results the user's free_credits is what it was when the search started
C32_ApiRefundRoundTrip ==
    [][\A u \in DOMAIN inflight :
          (reply'.text \in {"error_refunded", "no_results_refunded"} /\ inflight' = Empty)
          => CreditSystem_get_user_credits(users', u) = inflight[u].free_before]_vars

\* C32 witness: a search was refunded to an account that holds
\* MAX_FREE_CREDITS again
C32_Witness ==
    /\ reply.text \in {"error_refunded", "no_results_refunded"}
    /\ \E u \in DOMAIN users :
          users[u].free_credits = MAX_FREE_CREDITS /\ users[u].total_searches >= 1

\* C33: for a user who is banned when the handler runs, no search is executed
\* and no credit is consumed, whether the handler is /search or the format
\* button that follows it
C33_BannedNeverSearches ==
    [][\A u \in DOMAIN users :
          (/\ is_user_banned(DB, u)
           /\ \/ u \in conv_search /\ FormatStep(u)
              \/ \E args \in SearchArgs : search_command(u, args))
          => /\ ~reply'.searched
             /\ UNCHANGED <<transactions, searches>>
             /\ Free(u)' = Free(u) /\ Paid(u)' = Paid(u)]_vars

\* C34: a ban with hours > 0 is reported by is_user_banned until banned_until
\* has passed; the first check after that reports not banned and clears
\* banned, ban_reason and banned_until; a ban with hours = 0 stays until
\* unban_user is called; banning and unbanning change no balance
C34_BanExpiry ==
    [][\A t \in UserIds :
          /\ \A hours \in 0 .. MaxBanHours :
                BanUser(t, hours)
                => /\ (is_user_banned(DB, t))'
                   /\ \A v \in DOMAIN users : Free(v)' = Free(v) /\ Paid(v)' = Paid(v)
          /\ UnbanUser(t)
             => /\ ~(is_user_banned(DB, t))'
                /\ \A v \in DOMAIN users : Free(v)' = Free(v) /\ Paid(v)' = Paid(v)
          /\ (t \in DOMAIN users /\ users[t].banned /\ CheckBanned(t))
             => IF users[t].banned_until # Null /\ now > users[t].banned_until
                THEN /\ reply'.text = "not_banned"
                     /\ ~users'[t].banned
                     /\ users'[t].ban_reason = NoReason
                     /\ users'[t].banned_until = Null
                ELSE /\ reply'.text = "is_banned"
                     /\ UNCHANGED users
          /\ (/\ t \in DOMAIN users /\ users[t].banned /\ users[t].banned_until = Null
              /\ ~UnbanUser(t) /\ \A hours \in 1 .. MaxBanHours : ~BanUser(t, hours))
             => (is_user_banned(DB, t))']_vars

\* C35: a format button that executed the search of an accepted /search
\* leaves no pending entry, so that further buttons execute nothing; a format
\* button with no pending entry, the cancel button and /cancel perform no
\* search, consume no credit, leave no pending entry for that user and leave
\* the entries of the other users as they were
C35_PendingSearchSession ==
    [][\A u \in UserIds :
          LET quiet == /\ ~reply'.searched
                       /\ UNCHANGED <<users, transactions, searches>>
                       /\ u \notin DOMAIN pending_searches'
                       /\ \A v \in (DOMAIN pending_searches) \ {u} :
                             /\ v \in DOMAIN pending_searches'
                             /\ pending_searches'[v] = pending_searches[v]
          IN  /\ (/\ reply'.searched /\ u \in conv_search /\ u \in DOMAIN pending_searches
                  /\ FormatStep(u))
                 => u \notin DOMAIN pending_searches'
              /\ (u \in conv_search /\ u \notin DOMAIN pending_searches /\ FormatStep(u))
                 => quiet
              /\ (/\ u \in conv_search
                  /\ \E f1 \in BOOLEAN, f2 \in BOOLEAN :
                        format_selected_handler(u, "format_cancel", f1, f2))
                 => quiet
              /\ cancel_command(u) => quiet]_vars

\* C36: the interactive grant takes its three steps in order: the entry holds
\* a user id from waiting_amount on and an amount > 0 in waiting_type; an
\* admin_credit_* button grants only in waiting_type, once, the amount and to
\* the user of the entry, and removes the entry; so do the cancel button and
\* /cancel; a button pressed in an earlier step changes nothing, and a button
\* that chooses no credit type grants nothing
C36_InteractiveGrantSession ==
    [][\A u \in DOMAIN admin_actions :
          LET entry  == admin_actions[u]
              after  == admin_actions'[u]
              button == \E data \in {"admin_credit_free", "admin_credit_paid"} : admin_credit_type_handler(u, data)
          IN  /\ entry.step = "waiting_user_id" => entry.target_user = Null /\ entry.amount = Null
              /\ entry.step = "waiting_amount" => entry.target_user # Null /\ entry.amount = Null
              /\ entry.step = "waiting_type" => entry.target_user # Null /\ entry.amount > 0
              /\ (u \in DOMAIN admin_actions' /\ after.step # entry.step)
                 => \/ /\ entry.step = "waiting_user_id" /\ after.step = "waiting_amount"
                       /\ after.target_user # Null
                    \/ /\ entry.step = "waiting_amount" /\ after.step = "waiting_type"
                       /\ after.target_user = entry.target_user /\ after.amount > 0
                    \/ after.step = "waiting_user_id"
              /\ (u \in conv_admin /\ entry.step # "waiting_type" /\ button)
                 => UNCHANGED <<users, transactions, admin_actions>>
              /\ (u \in conv_admin /\ entry.step = "waiting_type" /\ button)
                 => /\ u \notin DOMAIN admin_actions'
                    /\ \/ UNCHANGED <<users, transactions>>
                       \/ /\ Len(transactions') = Len(transactions) + 1
                          /\ transactions'[Len(transactions')].user_id = entry.target_user
                          /\ transactions'[Len(transactions')].amount = entry.amount
                          /\ transactions'[Len(transactions')].admin_id = u
                          /\ users'[entry.target_user].free_credits
                                + users'[entry.target_user].paid_credits
                                = users[entry.target_user].free_credits
                                  + users[entry.target_user].paid_credits + entry.amount
                          /\ \A v \in (DOMAIN users) \ {entry.target_user} : users'[v] = users[v]
              /\ (u \in conv_admin /\ admin_credit_type_handler(u, "admin_cancel"))
                 => u \notin DOMAIN admin_actions' /\ UNCHANGED <<users, transactions>>
              /\ (u \in conv_admin /\ admin_credit_type_handler(u, "admin_add"))
                 => UNCHANGED <<users, transactions>>
              /\ cancel_command(u)
                 => u \notin DOMAIN admin_actions' /\ UNCHANGED <<users, transactions>>]_vars

\* C37: a step taken by a user who is not an administrator, whether
\* /addcredits, a text or an admin_* button of the interactive session, or a
\* search, runs no add_credits_to_user(): it records no admin_add transaction
\* and raises no account's balance
C37_OnlyAdminsGrant ==
    [][\A u \in UserIds \ ADMIN_IDS :
          (\/ \E args \in AddCreditsArgs : addcredits_command(u, args)
           \/ \E text \in AdminTexts : text_message(u, text)
           \/ \E data \in AdminData : callback_admin(u, data)
           \/ \E args \in SearchArgs \ {<<>>} : search_command(u, args)
           \/ \E f \in BOOLEAN : format_selected_handler(u, "format_emailpass", f, FALSE))
          => /\ \A i \in (DOMAIN transactions') \ (DOMAIN transactions) :
                   transactions'[i].type \notin {"admin_add_free", "admin_add_paid"}
             /\ \A v \in DOMAIN users :
                   users'[v].free_credits + users'[v].paid_credits
                      <= users[v].free_credits + users[v].paid_credits]_vars

\* C38: for every account, users.referral_count is the number of referrals
\* rows that name it as the referrer, and is the number of its referral_bonus
\* transactions
C38_ReferralBookkeeping ==
    \A u \in DOMAIN users :
       /\ users[u].referral_count
             = Cardinality({i \in DOMAIN referrals : referrals[i].referrer_id = u})
       /\ users[u].referral_count
             = Cardinality({i \in DOMAIN transactions :
                               /\ transactions[i].type = "referral_bonus"
                               /\ transactions[i].user_id = u})

\* C39: in every state, for every account, users.total_searches is the number
\* of its searches rows and the number of its search_used transactions; and
\* no step lowers the total_searches of an account
C39_SearchCountersAgree ==
    /\ [](\A u \in DOMAIN users :
             /\ users[u].total_searches
                   = Cardinality({i \in DOMAIN searches : searches[i].user_id = u})
             /\ users[u].total_searches
                   = Cardinality({i \in DOMAIN transactions :
                                     /\ transactions[i].type = "search_used"
                                     /\ transactions[i].user_id = u}))
    /\ [][\A u \in DOMAIN users :
             u \in DOMAIN users' /\ users'[u].total_searches >= users[u].total_searches]_vars

\* C39 witness: user 2 has searched twice, by /search and by /email
C39_Witness ==
    /\ 2 \in DOMAIN users
    /\ users[2].total_searches = 2
    /\ Len(searches) = 2
    /\ {searches[i].search_type : i \in DOMAIN searches} = {"domain", "email"}

====
